---- MODULE Spec2Model ----
(***************************************************************************)
(* Order lifecycle engine of the DeliveryPizza order service:              *)
(* OrderService (service.py) on top of OrderRepository (repository.py),    *)
(* each request running in its own database session (database.py).         *)
(*                                                                         *)
(* The store is PostgreSQL (config.py database_url) at its default         *)
(* isolation level: a session sees committed rows plus its own writes, an  *)
(* UPDATE of a row waits for the session that holds the row's lock, and a  *)
(* session's writes become visible together at commit or vanish at         *)
(* rollback.  Money is counted in thousandths of a currency unit so that   *)
(* the rounding of the Numeric(10, 2) columns is visible.                  *)
(***************************************************************************)
EXTENDS Integers, Sequences, FiniteSets, TLC

(***************************************************************************)
(* Bounds of the model.                                                    *)
(***************************************************************************)
MaxSessions == 2    \* requests in flight at the same time
MaxOps == 3         \* requests taken up, interleaved specification
MaxOpsSerial == 7   \* requests taken up, one-at-a-time specification
MaxLines == 2       \* lines of a create_order request
MaxOrders == 2      \* orders, where a specification needs more than one
MaxTime == 3        \* seconds the gateway's clock runs for
max_requests == 2   \* the rate limit, scaled down from the gateway's 100
window_seconds == 2 \* the rate limiter's window, scaled down from 60

Sessions == 1..MaxSessions
OrderIds == {1}             \* ids the orders.id sequence hands out
UserIds == {1, 2}          \* 1 places the orders, 2 is somebody else
None == "None"             \* Python's None, for optional strings
NoTime == 0                \* Python's None, for optional timestamps

(***************************************************************************)
(* shared/schemas.py, order/app/models.py: enumerations                    *)
(***************************************************************************)
OrderStatus ==
    {"pending", "confirmed", "preparing", "ready", "delivering", "delivered", "cancelled"}

PaymentStatus == {"pending", "paid", "failed", "refunded"}

DeliveryType == {"delivery", "pickup"}

(***************************************************************************)
(* shared/exceptions.py: what the caller receives                          *)
(***************************************************************************)
PermissionDeniedException(detail) ==
    [status_code |-> 403, error_code |-> "PERMISSION_DENIED", detail |-> detail]

NotFoundException(resource) ==
    [status_code |-> 404, error_code |-> "NOT_FOUND", detail |-> <<resource, "not found">>]

ValidationException(detail) ==
    [status_code |-> 422, error_code |-> "VALIDATION_ERROR", detail |-> detail]

\* an exception of the store that is no BaseAPIException
InternalServerError(at) ==
    [status_code |-> 500, error_code |-> "INTERNAL_SERVER_ERROR", detail |-> <<"store failure", at>>]

\* ResponseWrapper of a request that returned normally
Success(code) ==
    [status_code |-> code, error_code |-> "OK", detail |-> <<>>]

(***************************************************************************)
(* order/app/config.py: order settings, in thousandths                     *)
(***************************************************************************)
Settings ==
    [min_order_amount |-> 10000,
     delivery_fee |-> 5000,
     free_delivery_threshold |-> 50000]

(***************************************************************************)
(* order/app/service.py: OrderService.STATUS_TRANSITIONS                   *)
(***************************************************************************)
\* faulty variant: a cancelled order may be confirmed again
STATUS_TRANSITIONS_Reopen(status) ==
    CASE status = "pending" -> {"confirmed", "cancelled"}
      [] status = "confirmed" -> {"preparing", "cancelled"}
      [] status = "preparing" -> {"ready", "cancelled"}
      [] status = "ready" -> {"delivering", "cancelled"}
      [] status = "delivering" -> {"delivered", "cancelled"}
      [] status = "delivered" -> {}
      [] status = "cancelled" -> {"confirmed"}
      [] OTHER -> {}

\* faulty variant: the entry of delivering lacks delivered
STATUS_TRANSITIONS_NoDelivered(status) ==
    CASE status = "pending" -> {"confirmed", "cancelled"}
      [] status = "confirmed" -> {"preparing", "cancelled"}
      [] status = "preparing" -> {"ready", "cancelled"}
      [] status = "ready" -> {"delivering", "cancelled"}
      [] status = "delivering" -> {"cancelled"}
      [] status = "delivered" -> {}
      [] status = "cancelled" -> {}
      [] OTHER -> {}

STATUS_TRANSITIONS(status) ==
    CASE status = "pending" -> {"confirmed", "cancelled"}
      [] status = "confirmed" -> {"preparing", "cancelled"}
      [] status = "preparing" -> {"ready", "cancelled"}
      [] status = "ready" -> {"delivering", "cancelled"}
      [] status = "delivering" -> {"delivered", "cancelled"}
      [] status = "delivered" -> {}
      [] status = "cancelled" -> {}
      [] OTHER -> {}

(***************************************************************************)
(* catalog/app/models.py: the Product rows the catalog starts with         *)
(***************************************************************************)
ProductIds == {41, 42, 43}

\* the catalog's rows; its prices are Numeric(10, 2)
CatalogProduct(id) ==
    CASE id = 41 -> [id |-> 41, name |-> "Quattro", price |-> 49990, status |-> "available"]
      [] id = 42 -> [id |-> 42, name |-> "Margherita", price |-> 10000, status |-> "available"]
      [] OTHER -> [id |-> id, name |-> "Garlic bread", price |-> 9990, status |-> "available"]

(***************************************************************************)
(* State.                                                                  *)
(*   orders         committed Order rows by id, each with its OrderItem    *)
(*                  rows (items) and OrderStatusHistory rows               *)
(*                  (status_history) in insertion order                    *)
(*   next_order_id  the orders.id sequence                                 *)
(*   now            the clock; it ticks when a request is taken up, and    *)
(*                  second by second where the gateway is followed         *)
(*   pc             where each session's request stands                    *)
(*   call           the arguments of each session's request and what it    *)
(*                  has read                                               *)
(*   tx             each session's writes that are not committed yet       *)
(*   response       the response on its way to a caller, if any            *)
(*   catalog        the catalog service's Product rows by id               *)
(*   settings       the order settings the service was started with        *)
(*   redis          the Redis server the gateway, the auth service and the *)
(*                  catalog service talk to: the rate limiter's sorted     *)
(*                  sets with the time each key expires at, the token      *)
(*                  blacklist and the cached menu                          *)
(*   downstream     the requests the gateway has passed to call_next, in   *)
(*                  order                                                  *)
(*   issued         the refresh tokens the auth service has issued a new   *)
(*                  token pair for, in order                               *)
(***************************************************************************)
VARIABLES orders, next_order_id, now, pc, call, tx, response, catalog, settings,
          redis, downstream, issued

\* what the order service neither reads nor writes
peers == <<redis, downstream, issued>>

\* what the gateway and the auth service neither read nor write
store == <<orders, next_order_id, tx, catalog, settings>>

vars == <<orders, next_order_id, now, pc, call, tx, response, catalog, settings, peers>>

\* the callers the rate limiter tells apart (RateLimitMiddleware._get_client_id)
Clients == {"ip:10.0.0.1", "ip:10.0.0.2"}

\* Redis with no key set
NoRedis ==
    [ratelimit |-> [c \in Clients |-> {}],
     expires |-> [c \in Clients |-> 0],
     blacklist |-> {},
     menu |-> <<>>]

InitPeers ==
    /\ redis = NoRedis
    /\ downstream = <<>>
    /\ issued = <<>>

\* OrderService.__init__ takes the amounts from the settings
min_order_amount == settings.min_order_amount

delivery_fee == settings.delivery_fee

free_delivery_threshold == settings.free_delivery_threshold

NoCall == [op |-> "none"]

NoTx ==
    [status |-> <<>>, delivered_at |-> <<>>, history |-> <<>>, created |-> <<>>,
     payment_status |-> <<>>, delivery_address |-> <<>>, customer_note |-> <<>>]

NoResponse == [call |-> NoCall, result |-> Success(0)]

Init ==
    /\ orders = <<>>
    /\ next_order_id = 1
    /\ now = 1
    /\ pc = [r \in Sessions |-> "idle"]
    /\ call = [r \in Sessions |-> NoCall]
    /\ tx = [r \in Sessions |-> NoTx]
    /\ response = NoResponse
    /\ catalog = [id \in ProductIds |-> CatalogProduct(id)]
    /\ settings = Settings
    /\ InitPeers

\* the last response has reached its caller
Returned == response = NoResponse

\* the response reaches the caller
Respond ==
    /\ response # NoResponse
    /\ response' = NoResponse
    /\ UNCHANGED <<orders, next_order_id, now, pc, call, tx, catalog, settings, peers>>

\* a request is handled by the first session that is free
FirstFree(r) ==
    /\ pc[r] = "idle"
    /\ \A s \in Sessions : s < r => pc[s] # "idle"

\* no request is being handled
Quiet == \A r \in Sessions : pc[r] = "idle"

(***************************************************************************)
(* order/app/repository.py: reads                                          *)
(***************************************************************************)
\* OrderRepository.get_by_id finds a row
Exists(order_id) == order_id \in DOMAIN orders

\* the row lock an UPDATE takes and holds until its session ends
RowLocked(order_id, r) ==
    \E s \in Sessions \ {r} :
        /\ pc[s] \in {"written", "flushed"}
        /\ call[s].op \in {"update_order_status", "cancel_order",
                           "update_order", "update_payment_status"}
        /\ tx[s] # NoTx
        /\ call[s].order_id = order_id

(***************************************************************************)
(* order/app/models.py: a Numeric(10, 2) column keeps two decimal places;  *)
(* PostgreSQL rounds what is stored to the column's scale, half away from  *)
(* zero.                                                                   *)
(***************************************************************************)
Numeric_10_2(x) ==
    IF x >= 0 THEN ((x + 5) \div 10) * 10 ELSE 0 - (((0 - x) + 5) \div 10) * 10

(***************************************************************************)
(* order/app/service.py: OrderService.create_order                         *)
(*   data     OrderCreate: items (OrderItemCreate: product_id, quantity,   *)
(*            modifiers (OrderItemModifier: modifier_id, price,            *)
(*            quantity)), delivery_type, delivery_address                  *)
(*   reply    what CatalogClient.get_products_by_ids returned: None        *)
(*            (is_none) or a list of product dicts (id, name, price,       *)
(*            status)                                                      *)
(***************************************************************************)
\* product_map.get(id): a dict built from a list keeps the last entry of a key
RECURSIVE product_map_get(_, _)
product_map_get(products, id) ==
    IF products = <<>> THEN <<>>
    ELSE LET later == product_map_get(Tail(products), id)
         IN  IF later # <<>> THEN later
             ELSE IF Head(products).id = id THEN <<Head(products)>> ELSE <<>>

\* the loop "validate all products exist and are available"
RECURSIVE ValidateProducts(_, _)
ValidateProducts(items, products) ==
    IF items = <<>> THEN Success(201)
    ELSE LET product == product_map_get(products, Head(items).product_id)
         IN  IF product = <<>>
                 THEN NotFoundException(<<"Product", ToString(Head(items).product_id)>>)
             ELSE IF product[1].status # "available"
                 THEN ValidationException(<<"Product", product[1].name, "is not available">>)
             ELSE ValidateProducts(Tail(items), products)

\* modifiers_total of one line
RECURSIVE ModifiersTotal(_)
ModifiersTotal(modifiers) ==
    IF modifiers = <<>> THEN 0
    ELSE Head(modifiers).price * Head(modifiers).quantity + ModifiersTotal(Tail(modifiers))

\* faulty variant: the unit price is read from the catalog when the row is built
ItemData_LivePrice(item, product) ==
    [product_id |-> item.product_id,
     product_name |-> product.name,
     product_price |-> IF item.product_id \in DOMAIN catalog
                       THEN catalog[item.product_id].price ELSE product.price,
     quantity |-> item.quantity,
     modifiers_json |-> item.modifiers,
     modifiers_total |-> ModifiersTotal(item.modifiers),
     subtotal |-> (product.price + ModifiersTotal(item.modifiers)) * item.quantity]

\* one entry of items_data; modifiers_json is None (here <<>>) without modifiers
ItemData(item, product) ==
    [product_id |-> item.product_id,
     product_name |-> product.name,
     product_price |-> product.price,
     quantity |-> item.quantity,
     modifiers_json |-> item.modifiers,
     modifiers_total |-> ModifiersTotal(item.modifiers),
     subtotal |-> (product.price + ModifiersTotal(item.modifiers)) * item.quantity]

ItemsData(items, products) ==
    [i \in 1..Len(items) |->
        ItemData(items[i], product_map_get(products, items[i].product_id)[1])]

RECURSIVE SumSubtotals(_)
SumSubtotals(items_data) ==
    IF items_data = <<>> THEN 0
    ELSE Head(items_data).subtotal + SumSubtotals(Tail(items_data))

\* "calculate delivery fee"
DeliveryFee(delivery_type, subtotal) ==
    IF delivery_type = "delivery" /\ subtotal < free_delivery_threshold
    THEN delivery_fee
    ELSE 0

\* "calculate total"; the discount is fixed at zero
Discount == 0

Total(subtotal, fee, discount) == subtotal + fee - discount

\* faulty variant: an empty address passes for an address
AddressCheck_NoneOnly(data) ==
    IF data.delivery_type = "delivery" /\ data.delivery_address = None
    THEN ValidationException(<<"Delivery address is required for delivery orders">>)
    ELSE Success(201)

\* the address check made before the catalog is called
AddressCheck(data) ==
    IF data.delivery_type = "delivery" /\ data.delivery_address \in {None, ""}
    THEN ValidationException(<<"Delivery address is required for delivery orders">>)
    ELSE Success(201)

\* faulty variant: a subtotal equal to the minimum is rejected too
CreateOrderCheck_AtMost(data, reply) ==
    IF reply.is_none \/ reply.data = <<>>
        THEN ValidationException(<<"Could not fetch product information">>)
    ELSE IF ValidateProducts(data.items, reply.data).error_code # "OK"
        THEN ValidateProducts(data.items, reply.data)
    ELSE IF SumSubtotals(ItemsData(data.items, reply.data)) <= min_order_amount
        THEN ValidationException(<<"Minimum order amount is", ToString(min_order_amount)>>)
    ELSE Success(201)

\* faulty variant: the check of the minimum order amount is missing
CreateOrderCheck_NoMinimum(data, reply) ==
    IF reply.is_none \/ reply.data = <<>>
        THEN ValidationException(<<"Could not fetch product information">>)
    ELSE IF ValidateProducts(data.items, reply.data).error_code # "OK"
        THEN ValidateProducts(data.items, reply.data)
    ELSE Success(201)

\* the checks made once the catalog has answered
CreateOrderCheck(data, reply) ==
    IF reply.is_none \/ reply.data = <<>>
        THEN ValidationException(<<"Could not fetch product information">>)
    ELSE IF ValidateProducts(data.items, reply.data).error_code # "OK"
        THEN ValidateProducts(data.items, reply.data)
    ELSE IF SumSubtotals(ItemsData(data.items, reply.data)) < min_order_amount
        THEN ValidationException(<<"Minimum order amount is", ToString(min_order_amount)>>)
    ELSE Success(201)

(***************************************************************************)
(* order/app/repository.py: OrderRepository.create, the rows it inserts    *)
(***************************************************************************)
OrderItemRow(item_data) ==
    [product_id |-> item_data.product_id,
     product_name |-> item_data.product_name,
     product_price |-> Numeric_10_2(item_data.product_price),
     quantity |-> item_data.quantity,
     modifiers_json |-> item_data.modifiers_json,
     modifiers_total |-> Numeric_10_2(item_data.modifiers_total),
     subtotal |-> Numeric_10_2(item_data.subtotal)]

HistoryRow(status, changed_by, note) ==
    [status |-> status, changed_by |-> changed_by, note |-> note]

\* generate_order_number: prefix, UTC time to the second, four random characters
generate_order_number(timestamp, random_part) == <<"ORD", timestamp, random_part>>

\* what random.choices may draw
RandomParts == {"A7K2"}

OrderRow(user_id, data, items_data, order_number, created_at) ==
    LET subtotal == SumSubtotals(items_data)
        fee == DeliveryFee(data.delivery_type, subtotal)
    IN  [order_number |-> order_number,
         user_id |-> user_id,
         status |-> "pending",
         delivery_type |-> data.delivery_type,
         delivery_address |-> data.delivery_address,
         customer_note |-> data.customer_note,
         created_at |-> created_at,
         subtotal |-> Numeric_10_2(subtotal),
         delivery_fee |-> Numeric_10_2(fee),
         discount |-> Numeric_10_2(Discount),
         total |-> Numeric_10_2(Total(subtotal, fee, Discount)),
         payment_status |-> "pending",
         delivered_at |-> NoTime,
         items |-> [i \in 1..Len(items_data) |-> OrderItemRow(items_data[i])],
         status_history |-> <<HistoryRow("pending", user_id, None)>>]

\* the Order row alone, as the first flush of OrderRepository.create sends it
OrderInsert(user_id, data, items_data, order_number, created_at) ==
    [OrderRow(user_id, data, items_data, order_number, created_at)
         EXCEPT !.items = <<>>, !.status_history = <<>>]

(***************************************************************************)
(* order/app/service.py: OrderService.update_order_status, the checks      *)
(* between the read of the order and the write                             *)
(***************************************************************************)
\* faulty variant: the check "customers can only cancel orders" is missing
UpdateOrderStatusCheck_NoCancelOnly(order_id, status, changed_by, is_admin) ==
    IF ~Exists(order_id)
        THEN NotFoundException(<<"Order">>)
    ELSE IF ~is_admin /\ orders[order_id].user_id # changed_by
        THEN PermissionDeniedException(<<"You don't have access to this order">>)
    ELSE IF ~is_admin /\ orders[order_id].status # "pending"
        THEN ValidationException(<<"Can only cancel pending orders">>)
    ELSE IF status \notin STATUS_TRANSITIONS(orders[order_id].status)
        THEN ValidationException(
                 <<"Cannot transition from", orders[order_id].status, "to", status>>)
    ELSE Success(200)

UpdateOrderStatusCheck(order_id, status, changed_by, is_admin) ==
    IF ~Exists(order_id)
        THEN NotFoundException(<<"Order">>)
    ELSE IF ~is_admin /\ orders[order_id].user_id # changed_by
        THEN PermissionDeniedException(<<"You don't have access to this order">>)
    ELSE IF ~is_admin /\ status # "cancelled"
        THEN PermissionDeniedException(<<"Customers can only cancel orders">>)
    ELSE IF ~is_admin /\ orders[order_id].status # "pending"
        THEN ValidationException(<<"Can only cancel pending orders">>)
    ELSE IF status \notin STATUS_TRANSITIONS(orders[order_id].status)
        THEN ValidationException(
                 <<"Cannot transition from", orders[order_id].status, "to", status>>)
    ELSE Success(200)

\* the request as the session keeps it: its arguments and the status it read
StatusCall(op, order_id, status, note, changed_by, is_admin) ==
    [op |-> op,
     order_id |-> order_id,
     status |-> status,
     note |-> note,
     changed_by |-> changed_by,
     is_admin |-> is_admin,
     seen |-> IF Exists(order_id) THEN orders[order_id].status ELSE None]

\* a request arrives, reads the order and is checked; it is answered at once
\* when a check fails and goes on to OrderRepository.update_status otherwise
StatusRequest(r, limit, op, order_id, status, note, changed_by, is_admin) ==
    /\ Returned
    /\ FirstFree(r)
    /\ LET result == UpdateOrderStatusCheck(order_id, status, changed_by, is_admin)
           c == StatusCall(op, order_id, status, note, changed_by, is_admin)
       IN  IF result.error_code = "OK"
           THEN /\ now <= limit
                /\ now' = now + 1
                /\ pc' = [pc EXCEPT ![r] = "validated"]
                /\ call' = [call EXCEPT ![r] = c]
                /\ UNCHANGED response
           ELSE /\ response' = [call |-> c, result |-> result]
                /\ UNCHANGED <<now, pc, call>>
    /\ UNCHANGED <<orders, next_order_id, tx, catalog, settings, peers>>

UpdateOrderStatus(r, limit, order_id, status, note, changed_by, is_admin) ==
    StatusRequest(r, limit, "update_order_status", order_id, status, note, changed_by, is_admin)

\* OrderService.cancel_order
CancelOrder(r, limit, order_id, user_id, reason, is_admin) ==
    StatusRequest(r, limit, "cancel_order", order_id, "cancelled", reason, user_id, is_admin)

(***************************************************************************)
(* order/app/repository.py: OrderRepository.update_status                  *)
(***************************************************************************)
\* faulty variant: delivered_at is stamped when the courier sets out
UpdateStatusExecute_StampsDelivering(r) ==
    /\ Returned
    /\ pc[r] = "validated"
    /\ call[r].op \in {"update_order_status", "cancel_order"}
    /\ ~RowLocked(call[r].order_id, r)
    /\ pc' = [pc EXCEPT ![r] = "written"]
    /\ tx' = [tx EXCEPT ![r].status = <<call[r].status>>,
                        ![r].delivered_at =
                            IF call[r].status = "delivering" THEN <<now>> ELSE <<>>]
    /\ UNCHANGED <<orders, next_order_id, now, call, response, catalog, settings, peers>>

\* UPDATE orders SET status = ..., delivered_at = ... WHERE id = order_id
UpdateStatusExecute(r) ==
    /\ Returned
    /\ pc[r] = "validated"
    /\ call[r].op \in {"update_order_status", "cancel_order"}
    /\ ~RowLocked(call[r].order_id, r)
    /\ pc' = [pc EXCEPT ![r] = "written"]
    /\ tx' = [tx EXCEPT ![r].status = <<call[r].status>>,
                        ![r].delivered_at =
                            IF call[r].status = "delivered" THEN <<now>> ELSE <<>>]
    /\ UNCHANGED <<orders, next_order_id, now, call, response, catalog, settings, peers>>

\* faulty variant: the history row is written without the note
UpdateStatusFlush_NoNote(r) ==
    /\ Returned
    /\ pc[r] = "written"
    /\ pc' = [pc EXCEPT ![r] = "flushed"]
    /\ tx' = [tx EXCEPT ![r].history =
                 Append(@, HistoryRow(call[r].status, call[r].changed_by, None))]
    /\ UNCHANGED <<orders, next_order_id, now, call, response, catalog, settings, peers>>

\* session.add(history); session.flush()
UpdateStatusFlush(r) ==
    /\ Returned
    /\ pc[r] = "written"
    /\ pc' = [pc EXCEPT ![r] = "flushed"]
    /\ tx' = [tx EXCEPT ![r].history =
                 Append(@, HistoryRow(call[r].status, call[r].changed_by, call[r].note))]
    /\ UNCHANGED <<orders, next_order_id, now, call, response, catalog, settings, peers>>

(***************************************************************************)
(* order/app/service.py: the reads.  They send SELECT statements only and  *)
(* are answered in one step.                                               *)
(***************************************************************************)
\* ResponseWrapper with data
SuccessData(code, data) ==
    [status_code |-> code, error_code |-> "OK", detail |-> <<>>, data |-> data]

\* faulty variant: the order is handed out whoever asks
GetOrderCheck_NoOwner(order_id, user_id) ==
    IF ~Exists(order_id) THEN NotFoundException(<<"Order">>) ELSE Success(200)

\* OrderService.get_order; user_id is <<>> (Python's None) for an admin or a
\* manager and <<id>> for anybody else
GetOrderCheck(order_id, user_id) ==
    IF ~Exists(order_id)
        THEN NotFoundException(<<"Order">>)
    ELSE IF user_id # <<>> /\ orders[order_id].user_id # user_id[1]
        THEN PermissionDeniedException(<<"You don't have access to this order">>)
    ELSE Success(200)

\* faulty variant: the status history is not loaded with the order
get_by_id_NoHistory(order_id) ==
    [orders[order_id] EXCEPT !.status_history = <<>>]

\* OrderRepository.get_by_id: the committed Order row with its items and its
\* status history (the caller has checked that the row exists)
get_by_id(order_id) == orders[order_id]

\* what OrderService.get_order returns or raises
GetOrderResult(order_id, user_id) ==
    IF GetOrderCheck(order_id, user_id).error_code = "OK"
        THEN SuccessData(200, get_by_id(order_id))
    ELSE GetOrderCheck(order_id, user_id)

\* OrderService.get_order called for itself
GetOrder(r, order_id, user_id) ==
    /\ Returned
    /\ FirstFree(r)
    /\ response' = [call |-> [op |-> "get_order", order_id |-> order_id, user_id |-> user_id],
                    result |-> GetOrderResult(order_id, user_id)]
    /\ UNCHANGED <<orders, next_order_id, now, pc, call, tx, catalog, settings, peers>>

\* OrderRepository.get_by_order_number: the ids of the rows with the number
ByOrderNumber(order_number) ==
    {o \in DOMAIN orders : orders[o].order_number = order_number}

\* OrderService.get_order_by_number
GetOrderByNumberCheck(order_number, user_id) ==
    IF ByOrderNumber(order_number) = {}
        THEN NotFoundException(<<"Order">>)
    ELSE IF user_id # <<>>
            /\ orders[CHOOSE o \in ByOrderNumber(order_number) : TRUE].user_id # user_id[1]
        THEN PermissionDeniedException(<<"You don't have access to this order">>)
    ELSE Success(200)

\* Decimal division: the quotient to DecimalScale more places than the amounts
\* have, rounded half to even
DecimalScale == 1000

DecimalDivide(a, n) ==
    LET q == (a * DecimalScale) \div n
        rem == (a * DecimalScale) % n
    IN  IF 2 * rem > n \/ (2 * rem = n /\ q % 2 = 1) THEN q + 1 ELSE q

\* the rows base_query selects; a filter that is None (here <<>>) is not applied
BaseQuery(user_id, date_from, date_to) ==
    {o \in DOMAIN orders :
        /\ user_id # <<>> => orders[o].user_id = user_id[1]
        /\ date_from # <<>> => orders[o].created_at >= date_from[1]
        /\ date_to # <<>> => orders[o].created_at <= date_to[1]}

\* func.sum(Order.total) over the rows ids
RECURSIVE SumTotal(_)
SumTotal(ids) ==
    IF ids = {} THEN 0
    ELSE LET o == CHOOSE x \in ids : TRUE IN orders[o].total + SumTotal(ids \ {o})

\* faulty variant: the revenue is summed over every row selected
RepositoryGetStatistics_AllRevenue(user_id, date_from, date_to) ==
    LET base == BaseQuery(user_id, date_from, date_to)
        completed_orders == Cardinality({o \in base : orders[o].status = "delivered"})
        total_revenue == SumTotal(base)
    IN  [total_orders |-> Cardinality(base),
         pending_orders |-> Cardinality({o \in base : orders[o].status = "pending"}),
         completed_orders |-> completed_orders,
         cancelled_orders |-> Cardinality({o \in base : orders[o].status = "cancelled"}),
         total_revenue |-> total_revenue,
         average_order_value |->
             IF completed_orders > 0 THEN DecimalDivide(total_revenue, completed_orders) ELSE 0]

\* OrderRepository.get_statistics; average_order_value is in units of
\* 1 / DecimalScale of the amounts' unit
RepositoryGetStatistics(user_id, date_from, date_to) ==
    LET base == BaseQuery(user_id, date_from, date_to)
        completed_orders == Cardinality({o \in base : orders[o].status = "delivered"})
        total_revenue == SumTotal({o \in base : orders[o].status = "delivered"})
    IN  [total_orders |-> Cardinality(base),
         pending_orders |-> Cardinality({o \in base : orders[o].status = "pending"}),
         completed_orders |-> completed_orders,
         cancelled_orders |-> Cardinality({o \in base : orders[o].status = "cancelled"}),
         total_revenue |-> total_revenue,
         average_order_value |->
             IF completed_orders > 0 THEN DecimalDivide(total_revenue, completed_orders) ELSE 0]

\* OrderService.get_statistics; the specifications take it up only while no
\* other request is in flight, so that its SELECT statements read one state
GetStatistics(r, user_id, date_from, date_to) ==
    /\ Returned
    /\ FirstFree(r)
    /\ response' = [call |-> [op |-> "get_statistics", user_id |-> user_id,
                              date_from |-> date_from, date_to |-> date_to],
                    result |-> SuccessData(200, RepositoryGetStatistics(user_id, date_from,
                                                                        date_to))]
    /\ UNCHANGED <<orders, next_order_id, now, pc, call, tx, catalog, settings, peers>>

(***************************************************************************)
(* order/app/service.py: OrderService.update_payment_status                *)
(***************************************************************************)
\* faulty variant: the payment status of a finished order cannot be changed
UpdatePaymentStatusCheck_OpenOnly(order_id) ==
    IF ~Exists(order_id)
        THEN NotFoundException(<<"Order">>)
    ELSE IF orders[order_id].status \in {"delivered", "cancelled"}
        THEN ValidationException(<<"Order is closed">>)
    ELSE Success(200)

UpdatePaymentStatusCheck(order_id) ==
    IF ~Exists(order_id) THEN NotFoundException(<<"Order">>) ELSE Success(200)

\* the request arrives and the order is read
UpdatePaymentStatus(r, limit, order_id, payment_status) ==
    /\ Returned
    /\ FirstFree(r)
    /\ LET c == [op |-> "update_payment_status",
                 order_id |-> order_id,
                 payment_status |-> payment_status,
                 seen |-> IF Exists(order_id) THEN orders[order_id].status ELSE None]
       IN  IF UpdatePaymentStatusCheck(order_id).error_code = "OK"
           THEN /\ now <= limit
                /\ now' = now + 1
                /\ pc' = [pc EXCEPT ![r] = "validated"]
                /\ call' = [call EXCEPT ![r] = c]
                /\ UNCHANGED response
           ELSE /\ response' = [call |-> c, result |-> UpdatePaymentStatusCheck(order_id)]
                /\ UNCHANGED <<now, pc, call>>
    /\ UNCHANGED <<orders, next_order_id, tx, catalog, settings, peers>>

\* OrderRepository.update_payment_status:
\* UPDATE orders SET payment_status = ... WHERE id = order_id
UpdatePaymentStatusExecute(r) ==
    /\ Returned
    /\ pc[r] = "validated"
    /\ call[r].op = "update_payment_status"
    /\ ~RowLocked(call[r].order_id, r)
    /\ pc' = [pc EXCEPT ![r] = "flushed"]
    /\ tx' = [tx EXCEPT ![r].payment_status = <<call[r].payment_status>>]
    /\ UNCHANGED <<orders, next_order_id, now, call, response, catalog, settings, peers>>

(***************************************************************************)
(* order/app/service.py: OrderService.update_order; data is                *)
(* model_dump(exclude_unset=True) of the OrderUpdate: a function from the  *)
(* fields the request set, a field set to null included, to their values   *)
(***************************************************************************)
\* faulty variant: the check of the status is missing
UpdateOrderCheck_AnyStatus(order_id, user_id) ==
    IF ~Exists(order_id)
        THEN NotFoundException(<<"Order">>)
    ELSE IF orders[order_id].user_id # user_id
        THEN PermissionDeniedException(<<"You don't have access to this order">>)
    ELSE Success(200)

UpdateOrderCheck(order_id, user_id) ==
    IF ~Exists(order_id)
        THEN NotFoundException(<<"Order">>)
    ELSE IF orders[order_id].user_id # user_id
        THEN PermissionDeniedException(<<"You don't have access to this order">>)
    ELSE IF orders[order_id].status # "pending"
        THEN ValidationException(<<"Can only update pending orders">>)
    ELSE Success(200)

\* the request arrives, the order is read and checked
UpdateOrder(r, limit, order_id, data, user_id) ==
    /\ Returned
    /\ FirstFree(r)
    /\ LET c == [op |-> "update_order",
                 order_id |-> order_id,
                 data |-> data,
                 user_id |-> user_id,
                 seen |-> IF Exists(order_id) THEN orders[order_id].status ELSE None]
       IN  IF UpdateOrderCheck(order_id, user_id).error_code = "OK"
           THEN /\ now <= limit
                /\ now' = now + 1
                /\ pc' = [pc EXCEPT ![r] = "validated"]
                /\ call' = [call EXCEPT ![r] = c]
                /\ UNCHANGED response
           ELSE /\ response' = [call |-> c, result |-> UpdateOrderCheck(order_id, user_id)]
                /\ UNCHANGED <<now, pc, call>>
    /\ UNCHANGED <<orders, next_order_id, tx, catalog, settings, peers>>

\* OrderRepository.update: UPDATE orders SET <the fields set> WHERE id = order_id;
\* no statement is sent when no field was set
UpdateOrderExecute(r) ==
    /\ Returned
    /\ pc[r] = "validated"
    /\ call[r].op = "update_order"
    /\ DOMAIN call[r].data # {} => ~RowLocked(call[r].order_id, r)
    /\ pc' = [pc EXCEPT ![r] = "flushed"]
    /\ tx' = [tx EXCEPT ![r].delivery_address =
                            IF "delivery_address" \in DOMAIN call[r].data
                            THEN <<call[r].data.delivery_address>> ELSE <<>>,
                        ![r].customer_note =
                            IF "customer_note" \in DOMAIN call[r].data
                            THEN <<call[r].data.customer_note>> ELSE <<>>]
    /\ UNCHANGED <<orders, next_order_id, now, call, response, catalog, settings, peers>>

(***************************************************************************)
(* shared/database.py: DatabaseManager.get_session                         *)
(***************************************************************************)
\* faulty variant: the history rows of the session replace those of the order
ApplyTx_ReplacesHistory(r) ==
    IF tx[r].created # <<>>
    THEN orders @@ (tx[r].created[1].id :> tx[r].created[1].row)
    ELSE IF tx[r] = NoTx
    THEN orders
    ELSE [orders EXCEPT ![call[r].order_id] =
             [@ EXCEPT !.status = IF tx[r].status = <<>> THEN @ ELSE tx[r].status[1],
                       !.delivered_at =
                           IF tx[r].delivered_at = <<>> THEN @ ELSE tx[r].delivered_at[1],
                       !.payment_status =
                           IF tx[r].payment_status = <<>> THEN @ ELSE tx[r].payment_status[1],
                       !.delivery_address =
                           IF tx[r].delivery_address = <<>> THEN @
                           ELSE tx[r].delivery_address[1],
                       !.customer_note =
                           IF tx[r].customer_note = <<>> THEN @ ELSE tx[r].customer_note[1],
                       !.status_history = IF tx[r].history = <<>> THEN @ ELSE tx[r].history]]

\* faulty variant: a new address makes the order a delivery with the flat fee
ApplyTx_ChargesDelivery(r) ==
    IF tx[r].created # <<>>
    THEN orders @@ (tx[r].created[1].id :> tx[r].created[1].row)
    ELSE IF tx[r] = NoTx
    THEN orders
    ELSE [orders EXCEPT ![call[r].order_id] =
             [@ EXCEPT !.status = IF tx[r].status = <<>> THEN @ ELSE tx[r].status[1],
                       !.delivered_at =
                           IF tx[r].delivered_at = <<>> THEN @ ELSE tx[r].delivered_at[1],
                       !.payment_status =
                           IF tx[r].payment_status = <<>> THEN @ ELSE tx[r].payment_status[1],
                       !.delivery_address =
                           IF tx[r].delivery_address = <<>> THEN @
                           ELSE tx[r].delivery_address[1],
                       !.customer_note =
                           IF tx[r].customer_note = <<>> THEN @ ELSE tx[r].customer_note[1],
                       !.delivery_fee = IF tx[r].delivery_address = <<>> THEN @ ELSE delivery_fee,
                       !.status_history = @ \o tx[r].history]]

\* faulty variant: the UPDATE statements have no WHERE clause
ApplyTx_NoWhere(r) ==
    IF tx[r].created # <<>>
    THEN orders @@ (tx[r].created[1].id :> tx[r].created[1].row)
    ELSE IF tx[r] = NoTx
    THEN orders
    ELSE [o \in DOMAIN orders |->
             [orders[o] EXCEPT
                 !.status = IF tx[r].status = <<>> THEN @ ELSE tx[r].status[1],
                 !.delivered_at =
                     IF tx[r].delivered_at = <<>> THEN @ ELSE tx[r].delivered_at[1],
                 !.payment_status =
                     IF tx[r].payment_status = <<>> THEN @ ELSE tx[r].payment_status[1],
                 !.delivery_address =
                     IF tx[r].delivery_address = <<>> THEN @ ELSE tx[r].delivery_address[1],
                 !.customer_note =
                     IF tx[r].customer_note = <<>> THEN @ ELSE tx[r].customer_note[1],
                 !.status_history =
                     IF o = call[r].order_id THEN @ \o tx[r].history ELSE @]]

\* the committed rows once session r's writes are applied
ApplyTx(r) ==
    IF tx[r].created # <<>>
    THEN orders @@ (tx[r].created[1].id :> tx[r].created[1].row)
    ELSE IF tx[r] = NoTx
    THEN orders
    ELSE [orders EXCEPT ![call[r].order_id] =
             [@ EXCEPT !.status = IF tx[r].status = <<>> THEN @ ELSE tx[r].status[1],
                       !.delivered_at =
                           IF tx[r].delivered_at = <<>> THEN @ ELSE tx[r].delivered_at[1],
                       !.payment_status =
                           IF tx[r].payment_status = <<>> THEN @ ELSE tx[r].payment_status[1],
                       !.delivery_address =
                           IF tx[r].delivery_address = <<>> THEN @
                           ELSE tx[r].delivery_address[1],
                       !.customer_note =
                           IF tx[r].customer_note = <<>> THEN @ ELSE tx[r].customer_note[1],
                       !.status_history = @ \o tx[r].history]]

\* the handler returned: commit
SessionCommit(r) ==
    /\ Returned
    /\ pc[r] = "flushed"
    /\ orders' = ApplyTx(r)
    /\ response' = [call |-> call[r],
                    result |-> Success(IF call[r].op = "create_order" THEN 201 ELSE 200)]
    /\ pc' = [pc EXCEPT ![r] = "idle"]
    /\ call' = [call EXCEPT ![r] = NoCall]
    /\ tx' = [tx EXCEPT ![r] = NoTx]
    /\ UNCHANGED <<next_order_id, now, catalog, settings, peers>>

\* faulty variant: the failed session is committed instead of rolled back
SessionRollback_Commits(r) ==
    /\ Returned
    /\ pc[r] \in {"validated", "checked", "inserted", "written", "flushed"}
    /\ orders' = ApplyTx(r)
    /\ response' = [call |-> call[r], result |-> InternalServerError(pc[r])]
    /\ pc' = [pc EXCEPT ![r] = "idle"]
    /\ call' = [call EXCEPT ![r] = NoCall]
    /\ tx' = [tx EXCEPT ![r] = NoTx]
    /\ UNCHANGED <<next_order_id, now, catalog, settings, peers>>

\* the statement the session was about to run failed in the store (the UPDATE
\* after "validated", the flush after "checked", "inserted" or "written", the
\* reload or the commit after "flushed"): rollback, and the error goes up
SessionRollback(r) ==
    /\ Returned
    /\ pc[r] \in {"validated", "checked", "inserted", "written", "flushed"}
    /\ orders' = orders
    /\ response' = [call |-> call[r], result |-> InternalServerError(pc[r])]
    /\ pc' = [pc EXCEPT ![r] = "idle"]
    /\ call' = [call EXCEPT ![r] = NoCall]
    /\ tx' = [tx EXCEPT ![r] = NoTx]
    /\ UNCHANGED <<next_order_id, now, catalog, settings, peers>>

(***************************************************************************)
(* The Catalog Provider as the order service sees it                       *)
(* (catalog/app/repository.py get_by_ids, order/app/clients.py).           *)
(***************************************************************************)
\* ProductRepository.get_by_ids: the rows whose id is among ids
RECURSIVE ProductsOf(_)
ProductsOf(ids) ==
    IF ids \cap DOMAIN catalog = {} THEN <<>>
    ELSE LET id == CHOOSE x \in ids \cap DOMAIN catalog :
                       \A y \in ids \cap DOMAIN catalog : x <= y
         IN  <<catalog[id]>> \o ProductsOf(ids \ {id})

\* CatalogClient.get_products_by_ids: the rows found, or None on any failure
CatalogReplies(items) ==
    {[is_none |-> TRUE, data |-> <<>>],
     [is_none |-> FALSE, data |-> ProductsOf({items[i].product_id : i \in 1..Len(items)})]}

(***************************************************************************)
(* catalog/app/service.py: the catalog's own operations on its products    *)
(***************************************************************************)
ProductStatus == {"available", "out_of_stock", "discontinued"}

\* CatalogService.update_product: the fields that were set are written
UpdateProduct(product_id, field, value) ==
    /\ product_id \in DOMAIN catalog
    /\ catalog' = [catalog EXCEPT ![product_id] =
                      [id |-> @.id,
                       name |-> IF field = "name" THEN value ELSE @.name,
                       price |-> IF field = "price" THEN value ELSE @.price,
                       status |-> IF field = "status" THEN value ELSE @.status]]
    /\ UNCHANGED <<orders, next_order_id, now, pc, call, tx, response, settings, peers>>

\* CatalogService.delete_product
DeleteProduct(product_id) ==
    /\ product_id \in DOMAIN catalog
    /\ catalog' = [id \in DOMAIN catalog \ {product_id} |-> catalog[id]]
    /\ UNCHANGED <<orders, next_order_id, now, pc, call, tx, response, settings, peers>>

(***************************************************************************)
(* order/app/service.py: OrderService.create_order, step by step           *)
(***************************************************************************)
CreatesInFlight ==
    Cardinality({r \in Sessions :
                     call[r].op = "create_order" /\ pc[r] \in {"received", "catalog", "checked"}})

\* the request arrives; ids are the ids the orders.id sequence may hand out
CreateOrderArrives(ids, r, limit, user_id, data) ==
    /\ Returned
    /\ FirstFree(r)
    /\ now <= limit
    /\ \A k \in 0..CreatesInFlight : next_order_id + k \in ids
    /\ now' = now + 1
    /\ pc' = [pc EXCEPT ![r] = "received"]
    /\ call' = [call EXCEPT ![r] = [op |-> "create_order", user_id |-> user_id, data |-> data]]
    /\ UNCHANGED <<orders, next_order_id, tx, response, catalog, settings, peers>>

CreateOrderRequest(r, limit, user_id, data) ==
    CreateOrderArrives(OrderIds, r, limit, user_id, data)

\* the address check; then the catalog is called and the handler waits
CreateOrderStart(r) ==
    /\ Returned
    /\ pc[r] = "received"
    /\ IF AddressCheck(call[r].data).error_code = "OK"
       THEN /\ pc' = [pc EXCEPT ![r] = "catalog"]
            /\ UNCHANGED <<call, response>>
       ELSE /\ response' = [call |-> call[r], result |-> AddressCheck(call[r].data)]
            /\ pc' = [pc EXCEPT ![r] = "idle"]
            /\ call' = [call EXCEPT ![r] = NoCall]
    /\ UNCHANGED <<orders, next_order_id, now, tx, catalog, settings, peers>>

\* the request with the catalog's answer
CreateCall(c, reply) ==
    [op |-> c.op, user_id |-> c.user_id, data |-> c.data, reply |-> reply]

\* the request with the order number generated for it
NumberedCall(c, order_number) ==
    [op |-> c.op, user_id |-> c.user_id, data |-> c.data, reply |-> c.reply,
     order_number |-> order_number]

\* orders.order_number is unique: a committed row has the number
NumberTaken(order_number) ==
    \E o \in DOMAIN orders : orders[o].order_number = order_number

\* a row another session has inserted and not committed yet has the number; the
\* INSERT waits until that session ends
NumberPending(order_number, r) ==
    \E s \in Sessions \ {r} :
        tx[s].created # <<>> /\ tx[s].created[1].row.order_number = order_number

\* faulty variant: a failed catalog call is made once more
CreateOrderResume_Retries(r, reply) ==
    /\ IF reply.is_none
       THEN /\ pc' = [pc EXCEPT ![r] = "received"]
            /\ UNCHANGED <<call, response>>
       ELSE IF CreateOrderCheck(call[r].data, reply).error_code = "OK"
       THEN /\ pc' = [pc EXCEPT ![r] = "checked"]
            /\ call' = [call EXCEPT ![r] = CreateCall(call[r], reply)]
            /\ UNCHANGED response
       ELSE /\ response' = [call |-> CreateCall(call[r], reply),
                            result |-> CreateOrderCheck(call[r].data, reply)]
            /\ pc' = [pc EXCEPT ![r] = "idle"]
            /\ call' = [call EXCEPT ![r] = NoCall]
    /\ UNCHANGED <<orders, next_order_id, now, tx, catalog, settings, peers>>

\* the catalog has answered: the checks and the amounts
CreateOrderResume(r, reply) ==
    /\ IF CreateOrderCheck(call[r].data, reply).error_code = "OK"
       THEN /\ pc' = [pc EXCEPT ![r] = "checked"]
            /\ call' = [call EXCEPT ![r] = CreateCall(call[r], reply)]
            /\ UNCHANGED response
       ELSE /\ response' = [call |-> CreateCall(call[r], reply),
                            result |-> CreateOrderCheck(call[r].data, reply)]
            /\ pc' = [pc EXCEPT ![r] = "idle"]
            /\ call' = [call EXCEPT ![r] = NoCall]
    /\ UNCHANGED <<orders, next_order_id, now, tx, catalog, settings, peers>>

\* faulty variant: the Order row is committed as soon as it is flushed
CreateOrderInsert_Autocommit(r) ==
    /\ Returned
    /\ pc[r] = "checked"
    /\ \E random_part \in RandomParts :
           LET order_number == generate_order_number(now, random_part)
               row == OrderInsert(call[r].user_id, call[r].data,
                                  ItemsData(call[r].data.items, call[r].reply.data),
                                  order_number, now)
           IN  /\ ~NumberPending(order_number, r)
               /\ IF NumberTaken(order_number)
                  THEN /\ response' = [call |-> NumberedCall(call[r], order_number),
                                       result |-> InternalServerError("order_number")]
                       /\ pc' = [pc EXCEPT ![r] = "idle"]
                       /\ call' = [call EXCEPT ![r] = NoCall]
                       /\ UNCHANGED <<orders, tx>>
                  ELSE /\ orders' = orders @@ (next_order_id :> row)
                       /\ tx' = [tx EXCEPT ![r].created = <<[id |-> next_order_id, row |-> row]>>]
                       /\ pc' = [pc EXCEPT ![r] = "inserted"]
                       /\ call' = [call EXCEPT ![r] = NumberedCall(call[r], order_number)]
                       /\ UNCHANGED response
    /\ next_order_id' = next_order_id + 1
    /\ UNCHANGED <<now, catalog, settings, peers>>

\* faulty variant: the column order_number has no unique constraint
CreateOrderInsert_NoUnique(r) ==
    /\ Returned
    /\ pc[r] = "checked"
    /\ \E random_part \in RandomParts :
           LET order_number == generate_order_number(now, random_part)
               row == OrderInsert(call[r].user_id, call[r].data,
                                  ItemsData(call[r].data.items, call[r].reply.data),
                                  order_number, now)
           IN  /\ tx' = [tx EXCEPT ![r].created = <<[id |-> next_order_id, row |-> row]>>]
               /\ pc' = [pc EXCEPT ![r] = "inserted"]
               /\ call' = [call EXCEPT ![r] = NumberedCall(call[r], order_number)]
    /\ next_order_id' = next_order_id + 1
    /\ UNCHANGED <<orders, now, response, catalog, settings, peers>>

\* the first half of OrderRepository.create: the order number is generated, the
\* Order row is added and flushed.  The INSERT fails when a committed row has
\* the number (IntegrityError: the session is rolled back and the error goes
\* up); the id the sequence handed out is used up either way.
CreateOrderInsert(r) ==
    /\ Returned
    /\ pc[r] = "checked"
    /\ \E random_part \in RandomParts :
           LET order_number == generate_order_number(now, random_part)
               row == OrderInsert(call[r].user_id, call[r].data,
                                  ItemsData(call[r].data.items, call[r].reply.data),
                                  order_number, now)
           IN  /\ ~NumberPending(order_number, r)
               /\ IF NumberTaken(order_number)
                  THEN /\ response' = [call |-> NumberedCall(call[r], order_number),
                                       result |-> InternalServerError("order_number")]
                       /\ pc' = [pc EXCEPT ![r] = "idle"]
                       /\ call' = [call EXCEPT ![r] = NoCall]
                       /\ UNCHANGED tx
                  ELSE /\ tx' = [tx EXCEPT ![r].created = <<[id |-> next_order_id, row |-> row]>>]
                       /\ pc' = [pc EXCEPT ![r] = "inserted"]
                       /\ call' = [call EXCEPT ![r] = NumberedCall(call[r], order_number)]
                       /\ UNCHANGED response
    /\ next_order_id' = next_order_id + 1
    /\ UNCHANGED <<orders, now, catalog, settings, peers>>

\* the second half of OrderRepository.create: the OrderItem rows and the first
\* OrderStatusHistory row are added and flushed
CreateOrderItems(r) ==
    /\ Returned
    /\ pc[r] = "inserted"
    /\ tx' = [tx EXCEPT ![r].created =
                 <<[id |-> tx[r].created[1].id,
                    row |-> OrderRow(call[r].user_id, call[r].data,
                                     ItemsData(call[r].data.items, call[r].reply.data),
                                     tx[r].created[1].row.order_number,
                                     tx[r].created[1].row.created_at)]>>]
    /\ pc' = [pc EXCEPT ![r] = "flushed"]
    /\ UNCHANGED <<orders, next_order_id, now, call, response, catalog, settings, peers>>

CatalogReturns(r) ==
    /\ Returned
    /\ pc[r] = "catalog"
    /\ \E reply \in CatalogReplies(call[r].data.items) : CreateOrderResume(r, reply)

(***************************************************************************)
(* order/app/dependencies.py, order/app/routes.py: the routes.  user is    *)
(* the CurrentUser the bearer token resolves to.                           *)
(***************************************************************************)
UserRole == {"customer", "admin", "manager", "courier"}

\* the users get_current_user may return: the owner of the orders, another
\* customer, a courier, a manager and an admin
CurrentUser ==
    {[id |-> 1, role |-> "customer"], [id |-> 2, role |-> "customer"],
     [id |-> 3, role |-> "courier"], [id |-> 4, role |-> "manager"],
     [id |-> 5, role |-> "admin"]}

require_roles(allowed_roles, user) ==
    IF user.role \notin allowed_roles
    THEN PermissionDeniedException(<<"Required role">>)
    ELSE Success(200)

get_manager_user(user) == require_roles({"admin", "manager"}, user)

get_courier_user(user) == require_roles({"admin", "manager", "courier"}, user)

\* the dependency of a route refused the user: the handler does not run
RoleCheckFailed(r, route, user, order_id, result) ==
    /\ Returned
    /\ FirstFree(r)
    /\ response' = [call |-> [op |-> "require_roles", route |-> route, user |-> user,
                              order_id |-> order_id],
                    result |-> result]
    /\ UNCHANGED <<orders, next_order_id, now, pc, call, tx, catalog, settings, peers>>

\* "user_id = None if user.role in [ADMIN, MANAGER] else user.id"
ReaderId(user) == IF user.role \in {"admin", "manager"} THEN <<>> ELSE <<user.id>>

\* the routes get_order and get_order_history: both go through
\* OrderService.get_order
RouteGetOrder(r, route, user, order_id) ==
    /\ Returned
    /\ FirstFree(r)
    /\ response' = [call |-> [op |-> route, user |-> user, order_id |-> order_id],
                    result |-> GetOrderCheck(order_id, ReaderId(user))]
    /\ UNCHANGED <<orders, next_order_id, now, pc, call, tx, catalog, settings, peers>>

RouteGetOrderByNumber(r, user, order_number) ==
    /\ Returned
    /\ FirstFree(r)
    /\ response' = [call |-> [op |-> "get_order_by_number", user |-> user,
                              order_number |-> order_number],
                    result |-> GetOrderByNumberCheck(order_number, ReaderId(user))]
    /\ UNCHANGED <<orders, next_order_id, now, pc, call, tx, catalog, settings, peers>>

\* the route update_order passes user.id whatever the role
RouteUpdateOrder(r, limit, user, order_id, data) ==
    UpdateOrder(r, limit, order_id, data, user.id)

RouteCancelOrder(r, limit, user, order_id, reason) ==
    CancelOrder(r, limit, order_id, user.id, reason, user.role \in {"admin", "manager"})

\* the admin route update_order_status: changed_by = admin.id, is_admin = True
RouteUpdateOrderStatus(r, limit, user, order_id, status, note) ==
    IF get_courier_user(user).error_code = "OK"
    THEN UpdateOrderStatus(r, limit, order_id, status, note, user.id, TRUE)
    ELSE RoleCheckFailed(r, "update_order_status", user, <<order_id>>, get_courier_user(user))

RouteUpdatePaymentStatus(r, limit, user, order_id, payment_status) ==
    IF get_manager_user(user).error_code = "OK"
    THEN UpdatePaymentStatus(r, limit, order_id, payment_status)
    ELSE RoleCheckFailed(r, "update_payment_status", user, <<order_id>>, get_manager_user(user))

RouteGetStatistics(r, user, user_id, date_from, date_to) ==
    IF get_manager_user(user).error_code = "OK"
    THEN GetStatistics(r, user_id, date_from, date_to)
    ELSE RoleCheckFailed(r, "get_statistics", user, <<>>, get_manager_user(user))

\* the admin route get_all_orders; the page it returns is not modelled
RouteGetAllOrders(r, user) ==
    IF get_manager_user(user).error_code = "OK"
    THEN /\ Returned
         /\ FirstFree(r)
         /\ response' = [call |-> [op |-> "get_all_orders", user |-> user],
                         result |-> Success(200)]
         /\ UNCHANGED <<orders, next_order_id, now, pc, call, tx, catalog, settings, peers>>
    ELSE RoleCheckFailed(r, "get_all_orders", user, <<>>, get_manager_user(user))

(***************************************************************************)
(* The requests the callers send.                                          *)
(***************************************************************************)
Notes == {None}

\* the reason a cancel_order request gives
Reasons == {"changed my mind"}

\* the cart of the lifecycle specifications: two Margheritas, picked up
LifecycleRequests ==
    {[items |-> <<[product_id |-> 42, quantity |-> 2, modifiers |-> <<>>]>>,
      delivery_type |-> "pickup",
      delivery_address |-> None,
      customer_note |-> None]}

Quantities == {1, 2, 6}

ModifierLists == {<<>>, <<[modifier_id |-> 7, price |-> 5, quantity |-> 1]>>}

Lines == [product_id : ProductIds, quantity : Quantities, modifiers : ModifierLists]

SeqsUpTo(S, n) == UNION {[1..k -> S] : k \in 1..n}

\* the carts of the pricing specification
PricingRequests ==
    [items : SeqsUpTo(Lines, MaxLines),
     delivery_type : DeliveryType,
     delivery_address : {None, "", "Main St 1"},
     customer_note : {None}]

\* modifiers as a client may send them: price and quantity are a Decimal and an
\* int without constraint
AnyModifierLists ==
    {<<>>} \cup {<<[modifier_id |-> 7, price |-> p, quantity |-> q]>> :
                    p \in {-20000, -10000, 5000}, q \in {-2, 1}}

\* the carts of the amounts specification: Margheritas, delivered
AmountRequests ==
    [items : SeqsUpTo([product_id : {42}, quantity : {1, 2}, modifiers : AnyModifierLists],
                      MaxLines),
     delivery_type : DeliveryType,
     delivery_address : {"Main St 1"},
     customer_note : {None}]

\* the order settings a deployment may be started with, none of them negative
SettingsChoices ==
    [min_order_amount : {0, Settings.min_order_amount},
     delivery_fee : {0, Settings.delivery_fee},
     free_delivery_threshold : {0, Settings.free_delivery_threshold}]

\* the carts of the catalog specification: Margherita and garlic bread
CatalogRequests ==
    [items : SeqsUpTo([product_id : {42, 43}, quantity : {2}, modifiers : {<<>>}], 2),
     delivery_type : {"pickup"},
     delivery_address : {None},
     customer_note : {None}]

\* what the catalog's staff write into a product
ProductEdits ==
    {<<"name", "Margherita DOP">>, <<"price", 12000>>,
     <<"status", "out_of_stock">>, <<"status", "available">>}

\* what an owner sends to update_order: nothing set, or a new address
OrderUpdates == {<<>>, [delivery_address |-> "Side St 2"]}

\* the fields of OrderUpdate the model follows, with the values sent for them;
\* each of them is "str | None"
UpdateFields ==
    [delivery_address |-> {None, "Side St 2"}, customer_note |-> {"ring twice"}]

\* what model_dump(exclude_unset=True) may hold
FieldUpdates ==
    UNION {{d \in [F -> UNION {UpdateFields[f] : f \in DOMAIN UpdateFields}] :
                \A f \in F : d[f] \in UpdateFields[f]} : F \in SUBSET DOMAIN UpdateFields}

\* the carts of the update specification: two Margheritas, delivered or picked up
UpdateRequests ==
    {[items |-> <<[product_id |-> 42, quantity |-> 2, modifiers |-> <<>>]>>,
      delivery_type |-> "delivery",
      delivery_address |-> "Main St 1",
      customer_note |-> None],
     [items |-> <<[product_id |-> 42, quantity |-> 2, modifiers |-> <<>>]>>,
      delivery_type |-> "pickup",
      delivery_address |-> None,
      customer_note |-> None]}

\* who sends the requests of the update specification: the owner, another
\* customer and a manager
Editors == {user \in CurrentUser : user.id \in {1, 2, 4}}

\* the order numbers a caller asks for
NumbersAsked == {generate_order_number(t, p) : t \in 1..2, p \in RandomParts}

\* the status the staff ask for where requests of many kinds overlap
StatusesAsked == {"confirmed"}

\* the payment statuses sent while requests overlap
WebhookStatuses == {"paid"}

(***************************************************************************)
(* Specifications.                                                         *)
(***************************************************************************)
\* the requests that write overlap freely
Next ==
    \/ Respond
    \/ \E r \in Sessions :
        \/ \E d \in LifecycleRequests : CreateOrderRequest(r, MaxOps, 1, d)
        \/ CreateOrderStart(r)
        \/ CatalogReturns(r)
        \/ CreateOrderInsert(r)
        \/ CreateOrderItems(r)
        \/ \E o \in OrderIds, s \in OrderStatus, n \in Notes, u \in UserIds, a \in BOOLEAN :
               UpdateOrderStatus(r, MaxOps, o, s, n, u, a)
        \/ \E o \in OrderIds, n \in Reasons, u \in UserIds, a \in BOOLEAN :
               CancelOrder(r, MaxOps, o, u, n, a)
        \/ \E o \in OrderIds, p \in WebhookStatuses : UpdatePaymentStatus(r, MaxOps, o, p)
        \/ \E o \in OrderIds, d \in OrderUpdates, u \in UserIds :
               UpdateOrder(r, MaxOps, o, d, u)
        \/ UpdatePaymentStatusExecute(r)
        \/ UpdateOrderExecute(r)
        \/ UpdateStatusExecute(r)
        \/ UpdateStatusFlush(r)
        \/ SessionCommit(r)
        \/ SessionRollback(r)

Spec == Init /\ [][Next]_vars

\* requests of every kind, each running to completion before the next one starts
NextSerial ==
    \/ Respond
    \/ \E r \in Sessions :
        \/ \E d \in LifecycleRequests : Quiet /\ CreateOrderRequest(r, MaxOpsSerial, 1, d)
        \/ CreateOrderStart(r)
        \/ CatalogReturns(r)
        \/ CreateOrderInsert(r)
        \/ CreateOrderItems(r)
        \/ \E o \in OrderIds, s \in OrderStatus, n \in Notes, u \in UserIds, a \in BOOLEAN :
               Quiet /\ UpdateOrderStatus(r, MaxOpsSerial, o, s, n, u, a)
        \/ \E o \in OrderIds, n \in Reasons, u \in UserIds, a \in BOOLEAN :
               Quiet /\ CancelOrder(r, MaxOpsSerial, o, u, n, a)
        \/ \E o \in OrderIds, p \in PaymentStatus :
               Quiet /\ UpdatePaymentStatus(r, MaxOpsSerial, o, p)
        \/ \E o \in OrderIds, d \in OrderUpdates, u \in UserIds :
               Quiet /\ UpdateOrder(r, MaxOpsSerial, o, d, u)
        \/ \E o \in OrderIds, u \in {<<>>} \cup {<<id>> : id \in UserIds} :
               Quiet /\ GetOrder(r, o, u)
        \/ Quiet /\ GetStatistics(r, <<>>, <<>>, <<>>)
        \/ UpdatePaymentStatusExecute(r)
        \/ UpdateOrderExecute(r)
        \/ UpdateStatusExecute(r)
        \/ UpdateStatusFlush(r)
        \/ SessionCommit(r)
        \/ SessionRollback(r)

SpecSerial == Init /\ [][NextSerial]_vars

\* one create_order request, its cart drawn from PricingRequests
InitPricing ==
    /\ orders = <<>>
    /\ next_order_id = 1
    /\ now = 1
    /\ pc = [r \in Sessions |-> IF r = 1 THEN "received" ELSE "idle"]
    /\ \E d \in PricingRequests :
           call = [r \in Sessions |->
                      IF r = 1 THEN [op |-> "create_order", user_id |-> 1, data |-> d]
                      ELSE NoCall]
    /\ tx = [r \in Sessions |-> NoTx]
    /\ response = NoResponse
    /\ catalog = [id \in ProductIds |-> CatalogProduct(id)]
    /\ settings = Settings
    /\ InitPeers

NextPricing ==
    \/ Respond
    \/ \E r \in Sessions :
        \/ CreateOrderStart(r)
        \/ CatalogReturns(r)
        \/ CreateOrderInsert(r)
        \/ CreateOrderItems(r)
        \/ SessionCommit(r)
        \/ SessionRollback(r)

SpecPricing == InitPricing /\ [][NextPricing]_vars

\* one create_order request, its cart drawn from AmountRequests, under settings
\* drawn from SettingsChoices
InitAmounts ==
    /\ orders = <<>>
    /\ next_order_id = 1
    /\ now = 1
    /\ pc = [r \in Sessions |-> IF r = 1 THEN "received" ELSE "idle"]
    /\ \E d \in AmountRequests :
           call = [r \in Sessions |->
                      IF r = 1 THEN [op |-> "create_order", user_id |-> 1, data |-> d]
                      ELSE NoCall]
    /\ tx = [r \in Sessions |-> NoTx]
    /\ response = NoResponse
    /\ catalog = [id \in ProductIds |-> CatalogProduct(id)]
    /\ settings \in SettingsChoices
    /\ InitPeers

SpecAmounts == InitAmounts /\ [][NextPricing]_vars

\* the statuses of the orders the statistics are taken over
StoredStatuses == {"pending", "confirmed", "delivered", "cancelled"}

\* the history that leads an order of user_id to the status
StoredHistory(status, user_id) ==
    LET walk == CASE status = "pending" -> <<>>
                  [] status = "confirmed" -> <<"confirmed">>
                  [] status = "cancelled" -> <<"cancelled">>
                  [] OTHER -> <<"confirmed", "preparing", "ready", "delivering", "delivered">>
    IN  <<HistoryRow("pending", user_id, None)>>
            \o [i \in 1..Len(walk) |-> HistoryRow(walk[i], 4, None)]

\* the row of order id, as user_id's create_order for quantity Margheritas to
\* pick up and the transitions up to status leave it; order id is created at
\* time id and delivered one tick per transition later
StoredOrder(id, user_id, quantity, status) ==
    LET data == [items |-> <<[product_id |-> 42, quantity |-> quantity, modifiers |-> <<>>]>>,
                 delivery_type |-> "pickup",
                 delivery_address |-> None,
                 customer_note |-> None]
        row == OrderRow(user_id, data,
                        ItemsData(data.items, <<CatalogProduct(42)>>),
                        generate_order_number(id, CHOOSE p \in RandomParts : TRUE), id)
    IN  [row EXCEPT !.status = status,
                    !.status_history = StoredHistory(status, user_id),
                    !.delivered_at = IF status = "delivered" THEN id + 5 ELSE NoTime]

\* up to MaxOrders stored orders of the two customers, and no request in flight
InitStatistics ==
    /\ catalog = [id \in ProductIds |-> CatalogProduct(id)]
    /\ settings = Settings
    /\ InitPeers
    /\ \E n \in 0..MaxOrders :
           /\ \E u \in [1..n -> UserIds], q \in [1..n -> {2, 3}], s \in [1..n -> StoredStatuses] :
                  orders = [id \in 1..n |-> StoredOrder(id, u[id], q[id], s[id])]
           /\ next_order_id = n + 1
           /\ now = n + 6
    /\ pc = [r \in Sessions |-> "idle"]
    /\ call = [r \in Sessions |-> NoCall]
    /\ tx = [r \in Sessions |-> NoTx]
    /\ response = NoResponse

\* the filters of a statistics request: a user or none, dates or none
NextStatistics ==
    \/ Respond
    \/ \E r \in Sessions, user \in CurrentUser :
           \E user_id \in {<<>>} \cup {<<id>> : id \in UserIds},
              date_from \in {<<>>, <<2>>}, date_to \in {<<>>, <<2>>} :
               Quiet /\ RouteGetStatistics(r, user, user_id, date_from, date_to)

SpecStatistics == InitStatistics /\ [][NextStatistics]_vars

\* create_order requests that overlap, for up to MaxOrders orders
NextNumbers ==
    \/ Respond
    \/ \E r \in Sessions :
        \/ \E d \in LifecycleRequests, u \in UserIds :
               CreateOrderArrives(1..MaxOrders, r, MaxOps, u, d)
        \/ CreateOrderStart(r)
        \/ CatalogReturns(r)
        \/ CreateOrderInsert(r)
        \/ CreateOrderItems(r)
        \/ SessionCommit(r)
        \/ SessionRollback(r)

SpecNumbers == Init /\ [][NextNumbers]_vars

\* create_order requests while the catalog's staff edit and delete products
NextCatalog ==
    \/ Respond
    \/ \E id \in {42, 43}, e \in ProductEdits : UpdateProduct(id, e[1], e[2])
    \/ \E id \in {42, 43} : DeleteProduct(id)
    \/ \E r \in Sessions :
        \/ \E d \in CatalogRequests : CreateOrderRequest(r, MaxOps, 1, d)
        \/ CreateOrderStart(r)
        \/ CatalogReturns(r)
        \/ CreateOrderInsert(r)
        \/ CreateOrderItems(r)
        \/ SessionCommit(r)
        \/ SessionRollback(r)

SpecCatalog == Init /\ [][NextCatalog]_vars

\* update_order requests while the staff confirm the order or the owner cancels it
NextUpdates ==
    \/ Respond
    \/ \E r \in Sessions :
        \/ \E d \in UpdateRequests : CreateOrderRequest(r, MaxOps, 1, d)
        \/ CreateOrderStart(r)
        \/ CatalogReturns(r)
        \/ CreateOrderInsert(r)
        \/ CreateOrderItems(r)
        \/ \E user \in Editors, o \in OrderIds :
               \/ \E d \in FieldUpdates : RouteUpdateOrder(r, MaxOps, user, o, d)
               \/ \E n \in Reasons : RouteCancelOrder(r, MaxOps, user, o, n)
               \/ \E s \in StatusesAsked, n \in Notes :
                      RouteUpdateOrderStatus(r, MaxOps, user, o, s, n)
        \/ UpdateOrderExecute(r)
        \/ UpdateStatusExecute(r)
        \/ UpdateStatusFlush(r)
        \/ SessionCommit(r)
        \/ SessionRollback(r)

SpecUpdates == Init /\ [][NextUpdates]_vars

\* the requests of every route, sent by users of every role; the status and
\* cancel requests overlap freely with each other and with whatever is in flight
NextRoutes ==
    \/ Respond
    \/ \E r \in Sessions :
        \/ \E d \in LifecycleRequests : CreateOrderRequest(r, MaxOps, 1, d)
        \/ CreateOrderStart(r)
        \/ CatalogReturns(r)
        \/ CreateOrderInsert(r)
        \/ CreateOrderItems(r)
        \/ \E user \in CurrentUser, o \in OrderIds :
               \/ \E route \in {"get_order", "get_order_history"} :
                      RouteGetOrder(r, route, user, o)
               \/ \E d \in OrderUpdates : Quiet /\ RouteUpdateOrder(r, MaxOps, user, o, d)
               \/ \E n \in Reasons : RouteCancelOrder(r, MaxOps, user, o, n)
               \/ \E s \in StatusesAsked, n \in Notes :
                      RouteUpdateOrderStatus(r, MaxOps, user, o, s, n)
               \/ \E p \in WebhookStatuses :
                      Quiet /\ RouteUpdatePaymentStatus(r, MaxOps, user, o, p)
        \/ \E user \in CurrentUser :
               \/ \E n \in NumbersAsked : RouteGetOrderByNumber(r, user, n)
               \/ Quiet /\ RouteGetStatistics(r, user, <<>>, <<>>, <<>>)
               \/ RouteGetAllOrders(r, user)
        \/ UpdatePaymentStatusExecute(r)
        \/ UpdateOrderExecute(r)
        \/ UpdateStatusExecute(r)
        \/ UpdateStatusFlush(r)
        \/ SessionCommit(r)
        \/ SessionRollback(r)

SpecRoutes == Init /\ [][NextRoutes]_vars

\* two stored orders, one of each customer, pending or confirmed, and no
\* request in flight
InitOrders ==
    /\ catalog = [id \in ProductIds |-> CatalogProduct(id)]
    /\ settings = Settings
    /\ InitPeers
    /\ \E s \in [UserIds -> {"pending", "confirmed"}] :
           orders = [id \in UserIds |-> StoredOrder(id, id, 2, s[id])]
    /\ next_order_id = 3
    /\ now = 3
    /\ pc = [r \in Sessions |-> "idle"]
    /\ call = [r \in Sessions |-> NoCall]
    /\ tx = [r \in Sessions |-> NoTx]
    /\ response = NoResponse

\* requests that write, on either order, overlapping freely, and reads between
\* them; the clock stands at 3 after the two orders and MaxOps - 1 requests
\* that write are taken
NextOrders ==
    \/ Respond
    \/ \E r \in Sessions, o \in DOMAIN orders :
        \/ \E s \in StatusesAsked, n \in Notes :
               UpdateOrderStatus(r, MaxOps + 1, o, s, n, 4, TRUE)
        \/ \E n \in Reasons : CancelOrder(r, MaxOps + 1, o, o, n, FALSE)
        \/ \E p \in WebhookStatuses : UpdatePaymentStatus(r, MaxOps + 1, o, p)
        \/ \E d \in OrderUpdates : UpdateOrder(r, MaxOps + 1, o, d, o)
        \/ \E u \in {<<>>} \cup {<<id>> : id \in UserIds} : Quiet /\ GetOrder(r, o, u)
        \/ UpdatePaymentStatusExecute(r)
        \/ UpdateOrderExecute(r)
        \/ UpdateStatusExecute(r)
        \/ UpdateStatusFlush(r)
        \/ SessionCommit(r)
        \/ SessionRollback(r)

SpecOrders == InitOrders /\ [][NextOrders]_vars

(***************************************************************************)
(* gateway/app/middleware.py: RateLimitMiddleware.dispatch, one step per   *)
(* await.  The middleware is enabled and the requests go to paths other    *)
(* than /health.  pc follows the statement a request waits at; raises      *)
(* says whether the awaited call raises.                                   *)
(***************************************************************************)
\* a second passes: int(time.time()) grows by one and Redis drops the keys
\* whose time to live is over
Tick ==
    /\ Returned
    /\ now < MaxTime
    /\ now' = now + 1
    /\ LET gone == {c \in Clients : redis.expires[c] # 0 /\ redis.expires[c] <= now + 1}
       IN  redis' = [redis EXCEPT
                        !.ratelimit = [c \in Clients |-> IF c \in gone THEN {} ELSE @[c]],
                        !.expires = [c \in Clients |-> IF c \in gone THEN 0 ELSE @[c]]]
    /\ UNCHANGED <<store, pc, call, response, downstream, issued>>

\* "client_id = ...; key = ...; now = int(time.time())"
DispatchArrives(r, limit, client) ==
    /\ Returned
    /\ FirstFree(r)
    /\ Len(downstream) < limit
    /\ pc' = [pc EXCEPT ![r] = "zremrangebyscore"]
    /\ call' = [call EXCEPT ![r] = [op |-> "dispatch", client |-> client, now |-> now,
                                    request_count |-> 0, forwards |-> 0]]
    /\ UNCHANGED <<store, now, response, peers>>

\* "await self.redis.client.zremrangebyscore(key, 0, window_start)"; a sorted
\* set left empty is no key any more
ZRemRangeByScore(r, raises) ==
    /\ Returned
    /\ pc[r] = "zremrangebyscore"
    /\ IF raises
       THEN /\ pc' = [pc EXCEPT ![r] = "except"]
            /\ UNCHANGED redis
       ELSE LET key == call[r].client
                kept == {m \in redis.ratelimit[key] : m > call[r].now - window_seconds}
            IN  /\ redis' = [redis EXCEPT !.ratelimit[key] = kept,
                                          !.expires[key] = IF kept = {} THEN 0 ELSE @]
                /\ pc' = [pc EXCEPT ![r] = "zcard"]
    /\ UNCHANGED <<store, now, call, response, downstream, issued>>

\* the response of a request over the limit
RateLimited ==
    [status_code |-> 429, error_code |-> "RATE_LIMITED", detail |-> <<"Rate limit exceeded">>]

\* "request_count = await self.redis.client.zcard(key)" and the comparison
ZCard(r, raises) ==
    /\ Returned
    /\ pc[r] = "zcard"
    /\ LET request_count == Cardinality(redis.ratelimit[call[r].client])
       IN  IF raises
           THEN /\ pc' = [pc EXCEPT ![r] = "except"]
                /\ UNCHANGED <<call, response>>
           ELSE IF request_count >= max_requests
           THEN /\ response' = [call |-> call[r], result |-> RateLimited]
                /\ pc' = [pc EXCEPT ![r] = "idle"]
                /\ call' = [call EXCEPT ![r] = NoCall]
           ELSE /\ pc' = [pc EXCEPT ![r] = "zadd"]
                /\ call' = [call EXCEPT ![r].request_count = request_count]
                /\ UNCHANGED response
    /\ UNCHANGED <<store, now, peers>>

\* "await self.redis.client.zadd(key, {str(now): now})": the member is the
\* second the request arrived in
ZAdd(r, raises) ==
    /\ Returned
    /\ pc[r] = "zadd"
    /\ IF raises
       THEN /\ pc' = [pc EXCEPT ![r] = "except"]
            /\ UNCHANGED redis
       ELSE /\ redis' = [redis EXCEPT !.ratelimit[call[r].client] = @ \cup {call[r].now}]
            /\ pc' = [pc EXCEPT ![r] = "expire"]
    /\ UNCHANGED <<store, now, call, response, downstream, issued>>

\* "await self.redis.client.expire(key, self.window_seconds)"
Expire(r, raises) ==
    /\ Returned
    /\ pc[r] = "expire"
    /\ IF raises
       THEN /\ pc' = [pc EXCEPT ![r] = "except"]
            /\ UNCHANGED redis
       ELSE /\ redis' = [redis EXCEPT !.expires[call[r].client] =
                             IF redis.ratelimit[call[r].client] = {} THEN @
                             ELSE now + window_seconds]
            /\ pc' = [pc EXCEPT ![r] = "call_next"]
    /\ UNCHANGED <<store, now, call, response, downstream, issued>>

\* the request as call_next receives it
Forwarded(c) == [client |-> c.client, at |-> now]

\* the response with the rate limit headers
WithHeaders(request_count) ==
    [status_code |-> 200, error_code |-> "OK", detail |-> <<>>,
     remaining |-> max_requests - request_count - 1]

\* "response = await call_next(request)" in the try block, and the headers
CallNext(r, raises) ==
    /\ Returned
    /\ pc[r] = "call_next"
    /\ downstream' = Append(downstream, Forwarded(call[r]))
    /\ IF raises
       THEN /\ pc' = [pc EXCEPT ![r] = "except"]
            /\ call' = [call EXCEPT ![r].forwards = @ + 1]
            /\ UNCHANGED response
       ELSE /\ response' = [call |-> [call[r] EXCEPT !.forwards = @ + 1],
                            result |-> WithHeaders(call[r].request_count)]
            /\ pc' = [pc EXCEPT ![r] = "idle"]
            /\ call' = [call EXCEPT ![r] = NoCall]
    /\ UNCHANGED <<store, now, redis, issued>>

\* "except Exception: return await call_next(request)"; what call_next raises
\* here goes up
CallNextInExcept(r, raises) ==
    /\ Returned
    /\ pc[r] = "except"
    /\ downstream' = Append(downstream, Forwarded(call[r]))
    /\ response' = [call |-> [call[r] EXCEPT !.forwards = @ + 1],
                    result |-> IF raises THEN InternalServerError("call_next")
                               ELSE Success(200)]
    /\ pc' = [pc EXCEPT ![r] = "idle"]
    /\ call' = [call EXCEPT ![r] = NoCall]
    /\ UNCHANGED <<store, now, redis, issued>>

\* requests of two clients overlap while Redis answers every call and the
\* downstream application returns
NextRateLimit ==
    \/ Respond
    \/ Tick
    \/ \E r \in Sessions :
        \/ \E client \in Clients : DispatchArrives(r, MaxOps, client)
        \/ ZRemRangeByScore(r, FALSE)
        \/ ZCard(r, FALSE)
        \/ ZAdd(r, FALSE)
        \/ Expire(r, FALSE)
        \/ CallNext(r, FALSE)

SpecRateLimit == Init /\ [][NextRateLimit]_vars

\* requests that arrive in the same second while any call to Redis and the
\* downstream application may raise
NextGateway ==
    \/ Respond
    \/ \E r \in Sessions, raises \in BOOLEAN :
        \/ \E client \in Clients : DispatchArrives(r, MaxOps, client)
        \/ ZRemRangeByScore(r, raises)
        \/ ZCard(r, raises)
        \/ ZAdd(r, raises)
        \/ Expire(r, raises)
        \/ CallNext(r, raises)
        \/ CallNextInExcept(r, raises)

SpecGateway == Init /\ [][NextGateway]_vars

(***************************************************************************)
(* auth/app/service.py: AuthService.refresh_tokens, one step per await     *)
(***************************************************************************)
TokenBlacklistedException ==
    [status_code |-> 401, error_code |-> "TOKEN_REVOKED", detail |-> <<"Token has been revoked">>]

InvalidCredentialsException(detail) ==
    [status_code |-> 401, error_code |-> "INVALID_CREDENTIALS", detail |-> detail]

\* the users table of the auth service: the active and the inactive users
AuthUsers == [id \in {1, 7} |-> [id |-> id, is_active |-> id = 1]]

\* the refresh tokens a caller sends: good ones of user 1, an access token, one
\* that does not decode, one of a user that is gone and one of an inactive
\* user
RefreshTokens ==
    {[sub |-> 1, type |-> "refresh", decodes |-> TRUE],
     [sub |-> 1, type |-> "access", decodes |-> TRUE],
     [sub |-> 1, type |-> "refresh", decodes |-> FALSE],
     [sub |-> 6, type |-> "refresh", decodes |-> TRUE],
     [sub |-> 7, type |-> "refresh", decodes |-> TRUE]}

\* how often a token pair was issued for the refresh token
TimesIssued(token) == Cardinality({i \in DOMAIN issued : issued[i] = token})

\* the request arrives
RefreshArrives(r, limit, refresh_token) ==
    /\ Returned
    /\ FirstFree(r)
    /\ now <= limit
    /\ now' = now + 1
    /\ pc' = [pc EXCEPT ![r] = "is_token_blacklisted"]
    /\ call' = [call EXCEPT ![r] = [op |-> "refresh_tokens", refresh_token |-> refresh_token,
                                    issued_before |-> TimesIssued(refresh_token)]]
    /\ UNCHANGED <<store, response, peers>>

\* SecurityManager.decode_token and the checks of the payload
DecodeCheck(refresh_token) ==
    IF ~refresh_token.decodes
        THEN InvalidCredentialsException(<<"Invalid refresh token">>)
    ELSE IF refresh_token.type # "refresh"
        THEN InvalidCredentialsException(<<"Invalid token type">>)
    ELSE Success(200)

\* "if await self.redis.is_token_blacklisted(refresh_token)", then the token
\* is decoded
IsTokenBlacklisted(r) ==
    /\ Returned
    /\ pc[r] = "is_token_blacklisted"
    /\ LET result == IF call[r].refresh_token \in redis.blacklist
                         THEN TokenBlacklistedException
                     ELSE DecodeCheck(call[r].refresh_token)
       IN  IF result.error_code = "OK"
           THEN /\ pc' = [pc EXCEPT ![r] = "get_by_id"]
                /\ UNCHANGED <<call, response>>
           ELSE /\ response' = [call |-> call[r], result |-> result]
                /\ pc' = [pc EXCEPT ![r] = "idle"]
                /\ call' = [call EXCEPT ![r] = NoCall]
    /\ UNCHANGED <<store, now, peers>>

\* "user = await self.repository.get_by_id(payload.sub)"
GetUserById(r) ==
    /\ Returned
    /\ pc[r] = "get_by_id"
    /\ LET sub == call[r].refresh_token.sub
       IN  IF sub \in DOMAIN AuthUsers /\ AuthUsers[sub].is_active
           THEN /\ pc' = [pc EXCEPT ![r] = "blacklist_token"]
                /\ UNCHANGED <<call, response>>
           ELSE /\ response' = [call |-> call[r],
                                result |-> InvalidCredentialsException(
                                               <<"User not found or inactive">>)]
                /\ pc' = [pc EXCEPT ![r] = "idle"]
                /\ call' = [call EXCEPT ![r] = NoCall]
    /\ UNCHANGED <<store, now, peers>>

\* "await self.redis.blacklist_token(refresh_token, expire_seconds)" and the
\* new token pair
BlacklistToken(r) ==
    /\ Returned
    /\ pc[r] = "blacklist_token"
    /\ redis' = [redis EXCEPT !.blacklist = @ \cup {call[r].refresh_token}]
    /\ issued' = Append(issued, call[r].refresh_token)
    /\ response' = [call |-> call[r], result |-> Success(200)]
    /\ pc' = [pc EXCEPT ![r] = "idle"]
    /\ call' = [call EXCEPT ![r] = NoCall]
    /\ UNCHANGED <<store, now, downstream>>

\* refresh requests that overlap
NextAuth ==
    \/ Respond
    \/ \E r \in Sessions :
        \/ \E token \in RefreshTokens : RefreshArrives(r, MaxOps, token)
        \/ IsTokenBlacklisted(r)
        \/ GetUserById(r)
        \/ BlacklistToken(r)

SpecAuth == Init /\ [][NextAuth]_vars

(***************************************************************************)
(* catalog/app/service.py: get_menu and the mutations of a product, one    *)
(* step per await.  catalog holds the committed Product rows; the row a    *)
(* mutation has written is in its call until its session commits.         *)
(***************************************************************************)
\* the menu built from the rows: the products that are available
MenuOf(rows) == {rows[id] : id \in {p \in DOMAIN rows : rows[p].status = "available"}}

\* the mutations the staff send: a new price, a product out of stock, a
\* product deleted
MenuEdits ==
    {[op |-> "update_product", product_id |-> 42, field |-> "price", value |-> 12000],
     [op |-> "update_product", product_id |-> 43, field |-> "status", value |-> "out_of_stock"],
     [op |-> "delete_product", product_id |-> 41, field |-> None, value |-> None]}

\* the rows once the mutation is applied
Edited(rows, edit) ==
    IF edit.op = "delete_product"
    THEN [id \in DOMAIN rows \ {edit.product_id} |-> rows[id]]
    ELSE [rows EXCEPT ![edit.product_id] =
             [id |-> @.id,
              name |-> @.name,
              price |-> IF edit.field = "price" THEN edit.value ELSE @.price,
              status |-> IF edit.field = "status" THEN edit.value ELSE @.status]]

\* a get_menu request arrives; base is the menu the database holds then
GetMenuArrives(r, limit) ==
    /\ Returned
    /\ FirstFree(r)
    /\ now <= limit
    /\ now' = now + 1
    /\ pc' = [pc EXCEPT ![r] = "get_json"]
    /\ call' = [call EXCEPT ![r] = [op |-> "get_menu", base |-> MenuOf(catalog),
                                    menu |-> {}]]
    /\ UNCHANGED <<store, response, peers>>

\* "cached = await self.redis.get_json(cache_key)" and the return on a hit
MenuGetJson(r) ==
    /\ Returned
    /\ pc[r] = "get_json"
    /\ IF redis.menu # <<>>
       THEN /\ response' = [call |-> call[r], result |-> SuccessData(200, redis.menu[1])]
            /\ pc' = [pc EXCEPT ![r] = "idle"]
            /\ call' = [call EXCEPT ![r] = NoCall]
       ELSE /\ pc' = [pc EXCEPT ![r] = "build"]
            /\ UNCHANGED <<call, response>>
    /\ UNCHANGED <<store, now, peers>>

\* the SELECT statements that build the menu read the committed rows
MenuBuild(r) ==
    /\ Returned
    /\ pc[r] = "build"
    /\ call' = [call EXCEPT ![r].menu = MenuOf(catalog)]
    /\ pc' = [pc EXCEPT ![r] = "set_json"]
    /\ UNCHANGED <<store, now, response, peers>>

\* "await self.redis.set_json(cache_key, ...)" and the return
MenuSetJson(r) ==
    /\ Returned
    /\ pc[r] = "set_json"
    /\ redis' = [redis EXCEPT !.menu = <<call[r].menu>>]
    /\ response' = [call |-> call[r], result |-> SuccessData(200, call[r].menu)]
    /\ pc' = [pc EXCEPT ![r] = "idle"]
    /\ call' = [call EXCEPT ![r] = NoCall]
    /\ UNCHANGED <<store, now, downstream, issued>>

\* the cached menu is cache_ttl_menu seconds old: Redis drops it
MenuExpires ==
    /\ Returned
    /\ redis.menu # <<>>
    /\ redis' = [redis EXCEPT !.menu = <<>>]
    /\ UNCHANGED <<store, now, pc, call, response, downstream, issued>>

\* an update_product or delete_product request arrives and finds its product;
\* one mutation runs at a time
ProductEditArrives(r, limit, edit) ==
    /\ Returned
    /\ FirstFree(r)
    /\ now <= limit
    /\ \A s \in Sessions : call[s].op \notin {"update_product", "delete_product"}
    /\ edit.product_id \in DOMAIN catalog
    /\ Edited(catalog, edit) # catalog
    /\ now' = now + 1
    /\ pc' = [pc EXCEPT ![r] = "product_repo"]
    /\ call' = [call EXCEPT ![r] = edit]
    /\ UNCHANGED <<store, response, peers>>

\* "await self.product_repo.update(...)" or "delete(...)": the statement runs
\* in the session of the request
ProductRepoWrite(r) ==
    /\ Returned
    /\ pc[r] = "product_repo"
    /\ pc' = [pc EXCEPT ![r] = "invalidate"]
    /\ UNCHANGED <<store, now, call, response, peers>>

\* CatalogService._invalidate_product_cache: "menu:*" is deleted
InvalidateProductCache(r) ==
    /\ Returned
    /\ pc[r] = "invalidate"
    /\ redis' = [redis EXCEPT !.menu = <<>>]
    /\ pc' = [pc EXCEPT ![r] = "returned"]
    /\ UNCHANGED <<store, now, call, response, downstream, issued>>

\* the handler has returned: get_session commits and the caller is answered
ProductEditCommit(r) ==
    /\ Returned
    /\ pc[r] = "returned"
    /\ catalog' = Edited(catalog, call[r])
    /\ response' = [call |-> call[r], result |-> Success(200)]
    /\ pc' = [pc EXCEPT ![r] = "idle"]
    /\ call' = [call EXCEPT ![r] = NoCall]
    /\ UNCHANGED <<orders, next_order_id, now, tx, settings, peers>>

\* get_menu requests while the staff change the products
NextMenu ==
    \/ Respond
    \/ MenuExpires
    \/ \E r \in Sessions :
        \/ GetMenuArrives(r, MaxOps)
        \/ MenuGetJson(r)
        \/ MenuBuild(r)
        \/ MenuSetJson(r)
        \/ \E edit \in MenuEdits : ProductEditArrives(r, MaxOps, edit)
        \/ ProductRepoWrite(r)
        \/ InvalidateProductCache(r)
        \/ ProductEditCommit(r)

SpecMenu == Init /\ [][NextMenu]_vars

(***************************************************************************)
(* Vocabulary of the claims.                                               *)
(***************************************************************************)
\* the allowed-transition table of the specification, section 4.3
TableEdges ==
    {<<"pending", "confirmed">>, <<"pending", "cancelled">>,
     <<"confirmed", "preparing">>, <<"confirmed", "cancelled">>,
     <<"preparing", "ready">>, <<"preparing", "cancelled">>,
     <<"ready", "delivering">>, <<"ready", "cancelled">>,
     <<"delivering", "delivered">>, <<"delivering", "cancelled">>}

StatusOps == {"update_order_status", "cancel_order"}

\* the statuses of a history, in insertion order
Statuses(history) == [i \in 1..Len(history) |-> history[i].status]

Last(seq) == seq[Len(seq)]

\* the response on its way answers a status request on an existing order
StatusResponse == response.call.op \in StatusOps /\ response.call.seen # None

\* a status request on an existing order was answered in this step
StatusAnswered == response' # response /\ response'.call.op \in StatusOps

(***************************************************************************)
(* C1.  When every request runs to completion before the next one starts,  *)
(* the statuses of each order's history, in insertion order, start with    *)
(* pending and every consecutive pair is an edge of the transition table.  *)
(***************************************************************************)
C1_HistoryIsWalk ==
    \A o \in DOMAIN orders :
        LET h == Statuses(orders[o].status_history)
        IN  /\ Len(h) >= 1
            /\ h[1] = "pending"
            /\ \A i \in 1..(Len(h) - 1) : <<h[i], h[i + 1]>> \in TableEdges

\* a walk of three committed transitions that ends in a cancellation
C1_Witness ==
    \E o \in DOMAIN orders :
        /\ Len(orders[o].status_history) = 4
        /\ orders[o].status = "cancelled"

(***************************************************************************)
(* C2.  The write of a status request is applied only if the stored status *)
(* still equals the status the request validated against.                  *)
(***************************************************************************)
C2_WriteOnlyOnValidatedStatus ==
    [][\A r \in Sessions :
           (pc[r] = "validated" /\ pc'[r] = "written")
               => orders[call[r].order_id].status = call[r].seen]_vars

(***************************************************************************)
(* C3.  delivered and cancelled are absorbing: once the stored status of   *)
(* an order is delivered or cancelled, no step changes the stored status   *)
(* or appends a history entry.                                             *)
(***************************************************************************)
C3_TerminalAbsorbing ==
    [][\A o \in DOMAIN orders :
           orders[o].status \in {"delivered", "cancelled"}
               => /\ orders'[o].status = orders[o].status
                  /\ orders'[o].status_history = orders[o].status_history]_vars

(***************************************************************************)
(* C4.  The status update and its history append are atomic: in every      *)
(* committed state the status of the most recent history entry of an order *)
(* is the order's status, and a request that fails in the store after its  *)
(* UPDATE leaves the committed rows as they were.                          *)
(***************************************************************************)
C4_StatusMatchesHistory ==
    /\ [](\A o \in DOMAIN orders :
              /\ orders[o].status_history # <<>>
              /\ Last(orders[o].status_history).status = orders[o].status)
    /\ [][(StatusAnswered /\ response'.result.error_code = "INTERNAL_SERVER_ERROR")
              => orders' = orders]_vars

\* a request failed between its UPDATE and its flush, on an order that had
\* already changed status once
C4_Witness ==
    /\ StatusResponse
    /\ response.result = InternalServerError("written")
    /\ Len(orders[response.call.order_id].status_history) = 2
    /\ orders[response.call.order_id].status = "confirmed"

(***************************************************************************)
(* C5.  A request of a non-privileged actor who owns the order, for a      *)
(* target other than cancelled, is rejected with PermissionDenied whatever *)
(* the current status, the table's own edges included; it never gets as    *)
(* far as a write, and the committed rows stay as they were.               *)
(***************************************************************************)
C5_OwnerMayOnlyCancel ==
    /\ [](\A r \in Sessions :
              call[r].op \in StatusOps => call[r].is_admin \/ call[r].status = "cancelled")
    /\ []((/\ StatusResponse
           /\ ~response.call.is_admin
           /\ response.call.status # "cancelled"
           /\ orders[response.call.order_id].user_id = response.call.changed_by)
              => response.result.error_code = "PERMISSION_DENIED")
    /\ [][(/\ StatusAnswered
           /\ ~response'.call.is_admin
           /\ response'.call.status # "cancelled")
              => orders' = orders]_vars

\* the owner asked for pending -> confirmed, an edge of the table, and was refused
C5_Witness ==
    /\ StatusResponse
    /\ ~response.call.is_admin
    /\ orders[response.call.order_id].user_id = response.call.changed_by
    /\ response.call.seen = "pending"
    /\ response.call.status = "confirmed"
    /\ response.result.error_code = "PERMISSION_DENIED"

(***************************************************************************)
(* C6.  A cancellation by a non-privileged actor on an order that is not   *)
(* pending fails with InvalidTransition or PermissionDenied, no other      *)
(* kind, and leaves the stored status and history unchanged.               *)
(***************************************************************************)
C6_LateCancelKind ==
    (/\ StatusResponse
     /\ ~response.call.is_admin
     /\ response.call.status = "cancelled"
     /\ response.call.seen # "pending")
        => /\ response.result.error_code \in {"INVALID_TRANSITION", "PERMISSION_DENIED"}
           /\ orders[response.call.order_id].status = response.call.seen

(***************************************************************************)
(* C7.  A privileged actor's update_order_status request for a pair        *)
(* (current, target) outside the table is rejected with InvalidTransition, *)
(* a kind of its own, the error names both statuses, and the stored status *)
(* is unchanged.                                                           *)
(***************************************************************************)
C7_OffTableKind ==
    (/\ StatusResponse
     /\ response.call.op = "update_order_status"
     /\ response.call.is_admin
     /\ <<response.call.seen, response.call.status>> \notin TableEdges)
        => /\ response.result.error_code = "INVALID_TRANSITION"
           /\ \E i, j \in 1..Len(response.result.detail) :
                  /\ i < j
                  /\ response.result.detail[i] = response.call.seen
                  /\ response.result.detail[j] = response.call.status
           /\ orders[response.call.order_id].status = response.call.seen

(***************************************************************************)
(* C8.  A privileged actor's update_order_status request along an edge     *)
(* (current, target) of the table is never refused, and when it has        *)
(* committed the stored status and the newest history entry are target.    *)
(***************************************************************************)
C8_EdgesAccepted ==
    (/\ StatusResponse
     /\ response.call.op = "update_order_status"
     /\ response.call.is_admin
     /\ <<response.call.seen, response.call.status>> \in TableEdges)
        => /\ response.result.error_code \in {"OK", "INTERNAL_SERVER_ERROR"}
           /\ response.result.error_code = "OK"
                  => /\ orders[response.call.order_id].status = response.call.status
                     /\ Last(orders[response.call.order_id].status_history).status
                            = response.call.status

\* the five-step path from pending to delivered has just been completed
C8_Witness ==
    /\ StatusResponse
    /\ response.result.error_code = "OK"
    /\ response.call.seen = "delivering"
    /\ Statuses(orders[response.call.order_id].status_history)
           = <<"pending", "confirmed", "preparing", "ready", "delivering", "delivered">>
    /\ orders[response.call.order_id].status = "delivered"

(***************************************************************************)
(* C9.  In every persisted order each line's subtotal is                   *)
(* (unit price + sum of modifier price x modifier quantity) x quantity,    *)
(* the order's subtotal is the sum of the lines' subtotals, and total is   *)
(* subtotal + delivery_fee - discount exactly, with discount zero.         *)
(***************************************************************************)
C9_PersistedArithmetic ==
    \A o \in DOMAIN orders :
        LET order == orders[o]
        IN  /\ \A i \in 1..Len(order.items) :
                   LET line == order.items[i]
                   IN  /\ line.product_price = CatalogProduct(line.product_id).price
                       /\ line.subtotal
                              = (line.product_price + ModifiersTotal(line.modifiers_json))
                                    * line.quantity
            /\ order.subtotal = SumSubtotals(order.items)
            /\ order.discount = 0
            /\ order.total = order.subtotal + order.delivery_fee - order.discount

(***************************************************************************)
(* C10.  In every persisted order delivery_fee is 0 for pickup, the flat   *)
(* fee for delivery with subtotal strictly below the free-delivery         *)
(* threshold, and 0 for delivery with subtotal at or above the threshold.  *)
(***************************************************************************)
C10_PersistedDeliveryFee ==
    \A o \in DOMAIN orders :
        LET order == orders[o]
        IN  /\ order.delivery_type = "pickup" => order.delivery_fee = 0
            /\ (order.delivery_type = "delivery" /\ order.subtotal < free_delivery_threshold)
                   => order.delivery_fee = delivery_fee
            /\ (order.delivery_type = "delivery" /\ order.subtotal >= free_delivery_threshold)
                   => order.delivery_fee = 0

\* a create_order request has been answered after the catalog's answer came in
CreateResponse == response.call.op = "create_order" /\ "reply" \in DOMAIN response.call

\* a create_order request is answered in this step
CreateAnswered == response' # response /\ response'.call.op = "create_order"

\* the catalog's answer holds every product of the request, all of them available
Resolved(c) ==
    /\ ~c.reply.is_none
    /\ c.reply.data # <<>>
    /\ ValidateProducts(c.data.items, c.reply.data).error_code = "OK"

\* the subtotal the service computes for the request
ComputedSubtotal(c) == SumSubtotals(ItemsData(c.data.items, c.reply.data))

BelowMinimum(result) ==
    result.error_code # "OK" /\ result.detail # <<>> /\ result.detail[1] = "Minimum order amount is"

(***************************************************************************)
(* C11.  A create_order request whose products all resolve is rejected     *)
(* for its amount exactly when the computed subtotal is strictly below the *)
(* minimum order amount; a subtotal equal to the minimum is accepted; a    *)
(* rejected request persists nothing; every persisted order has            *)
(* subtotal >= the minimum.                                                *)
(***************************************************************************)
C11_MinimumOrder ==
    /\ [](\A o \in DOMAIN orders : orders[o].subtotal >= min_order_amount)
    /\ []((CreateResponse /\ Resolved(response.call))
              => /\ BelowMinimum(response.result)
                     <=> ComputedSubtotal(response.call) < min_order_amount
                 /\ response.result.error_code \in {"OK", "INTERNAL_SERVER_ERROR"}
                     <=> ComputedSubtotal(response.call) >= min_order_amount)
    /\ [][(CreateAnswered /\ response'.result.error_code # "OK") => orders' = orders]_vars

\* one Margherita, picked up: the subtotal is the minimum and the order is stored
C11_Witness ==
    /\ CreateResponse
    /\ response.result.error_code = "OK"
    /\ ComputedSubtotal(response.call) = min_order_amount
    /\ \E o \in DOMAIN orders : orders[o].subtotal = min_order_amount

\* some product of the request is not among the rows the catalog returned
SomeMissing(c) ==
    \E i \in 1..Len(c.data.items) :
        product_map_get(c.reply.data, c.data.items[i].product_id) = <<>>

\* some product of the request came back with a status other than "available"
SomeUnavailable(c) ==
    \E i \in 1..Len(c.data.items) :
        LET product == product_map_get(c.reply.data, c.data.items[i].product_id)
        IN  product # <<>> /\ product[1].status # "available"

(***************************************************************************)
(* C12.  When the catalog answers and some requested product is missing    *)
(* from the answer (the empty answer included) create_order fails with     *)
(* NotFound; when all are present and some is not available it fails as    *)
(* unavailable; in both cases no order is stored.                          *)
(***************************************************************************)
C12_ResolutionFailures ==
    (CreateResponse /\ ~response.call.reply.is_none)
        => /\ SomeMissing(response.call)
                  => /\ response.result.error_code = "NOT_FOUND"
                     /\ DOMAIN orders = {}
           /\ (~SomeMissing(response.call) /\ SomeUnavailable(response.call))
                  => /\ response.result.error_code # "OK"
                     /\ Last(response.result.detail) = "is not available"
                     /\ DOMAIN orders = {}

(***************************************************************************)
(* C13.  When the catalog call fails (transport error, timeout, non-200,   *)
(* non-success envelope) create_order fails with UpstreamUnavailable, a    *)
(* kind of its own, and no order is stored.                                *)
(***************************************************************************)
C13_UpstreamUnavailable ==
    (CreateResponse /\ response.call.reply.is_none)
        => /\ response.result.error_code = "SERVICE_UNAVAILABLE"
           /\ DOMAIN orders = {}

(***************************************************************************)
(* C14.  Order creation is all-or-nothing: every committed order has at    *)
(* least one item and one history entry; an accepted request stores the    *)
(* order with one item per requested line; a request that fails at any     *)
(* step (validation, catalog call, order insert, item and history insert,  *)
(* commit) leaves the store exactly as it was.                             *)
(***************************************************************************)
C14_CreateAllOrNothing ==
    /\ [](\A o \in DOMAIN orders :
              Len(orders[o].items) >= 1 /\ Len(orders[o].status_history) >= 1)
    /\ [][(CreateAnswered /\ response'.result.error_code # "OK") => orders' = orders]_vars
    /\ [][(CreateAnswered /\ response'.result.error_code = "OK")
              => \E o \in DOMAIN orders' \ DOMAIN orders :
                     /\ DOMAIN orders' = DOMAIN orders \cup {o}
                     /\ Len(orders'[o].items) = Len(response'.call.data.items)
                     /\ Len(orders'[o].status_history) = 1
                     /\ \A p \in DOMAIN orders : orders'[p] = orders[p]]_vars

\* the flush of the items failed after the Order row had been flushed
C14_Witness ==
    /\ CreateResponse
    /\ response.result = InternalServerError("inserted")
    /\ DOMAIN orders = {}

\* the status request answered in this step was accepted and is about order o
Accepted(o) ==
    /\ StatusAnswered
    /\ response'.result.error_code = "OK"
    /\ response'.call.order_id = o

(***************************************************************************)
(* C15.  The history of an order has one entry per creation and accepted   *)
(* transition: creation stores the single entry (pending, owner); an       *)
(* accepted transition appends exactly one entry with the target status,   *)
(* the acting user and the note; every other step, the rejected and the    *)
(* failed requests included, appends none.                                 *)
(***************************************************************************)
C15_OneEntryPerTransition ==
    [][\A o \in DOMAIN orders' :
           IF o \notin DOMAIN orders
           THEN /\ CreateAnswered /\ response'.result.error_code = "OK"
                /\ orders'[o].status_history
                       = <<HistoryRow("pending", response'.call.user_id, None)>>
                /\ orders'[o].user_id = response'.call.user_id
           ELSE IF Accepted(o)
           THEN orders'[o].status_history
                    = Append(orders[o].status_history,
                             HistoryRow(response'.call.status, response'.call.changed_by,
                                        response'.call.note))
           ELSE orders'[o].status_history = orders[o].status_history]_vars

\* an accepted cancellation has left its entry, reason included, after the first
C15_Witness ==
    /\ StatusResponse
    /\ response.result.error_code = "OK"
    /\ response.call.op = "cancel_order"
    /\ orders[response.call.order_id].status_history
           = <<HistoryRow("pending", 1, None),
               HistoryRow("cancelled", response.call.changed_by, "changed my mind")>>

\* seq is the beginning of longer
IsPrefix(seq, longer) ==
    Len(seq) <= Len(longer) /\ \A i \in 1..Len(seq) : longer[i] = seq[i]

\* a request of the given operation has been answered
Answered(op) == response.call.op = op

(***************************************************************************)
(* C16.  The status history is append-only: in every step of every         *)
(* operation the history of each order before the step is a prefix of its  *)
(* history after it.                                                       *)
(***************************************************************************)
C16_HistoryAppendOnly ==
    [][\A o \in DOMAIN orders :
           /\ o \in DOMAIN orders'
           /\ IsPrefix(orders[o].status_history, orders'[o].status_history)]_vars

\* a payment update went through on an order that has two history entries
C16_Witness ==
    /\ Answered("update_payment_status")
    /\ response.result.error_code = "OK"
    /\ Len(orders[response.call.order_id].status_history) = 2
    /\ orders[response.call.order_id].payment_status = "paid"

(***************************************************************************)
(* C17.  delivered_at is set exactly when the history holds an entry with  *)
(* status delivered, and it changes only in the step that commits an       *)
(* accepted transition to delivered.                                       *)
(***************************************************************************)
C17_DeliveredAtStamp ==
    /\ [](\A o \in DOMAIN orders :
              orders[o].delivered_at # NoTime
                  <=> \E i \in 1..Len(orders[o].status_history) :
                          orders[o].status_history[i].status = "delivered")
    /\ [][\A o \in DOMAIN orders :
              orders'[o].delivered_at # orders[o].delivered_at
                  => Accepted(o) /\ response'.call.status = "delivered"]_vars

\* the transition delivering -> delivered has been accepted and has stamped the order
C17_Witness ==
    /\ StatusResponse
    /\ response.result.error_code = "OK"
    /\ response.call.status = "delivered"
    /\ orders[response.call.order_id].delivered_at # NoTime
    /\ orders[response.call.order_id].status = "delivered"

\* the amounts and the items of an order
Financials(order) ==
    <<order.subtotal, order.delivery_fee, order.discount, order.total, order.items>>

(***************************************************************************)
(* C18.  After creation no operation changes the subtotal, delivery_fee,   *)
(* discount, total or items of an order, and                               *)
(* total = subtotal + delivery_fee - discount in every reachable state.    *)
(***************************************************************************)
C18_FinancialsFrozen ==
    /\ [](\A o \in DOMAIN orders :
              orders[o].total
                  = orders[o].subtotal + orders[o].delivery_fee - orders[o].discount)
    /\ [][\A o \in DOMAIN orders : Financials(orders'[o]) = Financials(orders[o])]_vars

\* update_order has written a new address into the order
C18_Witness ==
    /\ Answered("update_order")
    /\ response.result.error_code = "OK"
    /\ "delivery_address" \in DOMAIN response.call.data
    /\ orders[response.call.order_id].delivery_address = response.call.data.delivery_address
    /\ orders[response.call.order_id].total = 20000

(***************************************************************************)
(* C19.  The items of a stored order carry the product name and unit price *)
(* the catalog returned to that create_order request, and a later change   *)
(* of the catalog (name, price, status, deletion) leaves every stored      *)
(* order as it was.                                                        *)
(***************************************************************************)
C19_CatalogSnapshot ==
    /\ [][(CreateAnswered /\ response'.result.error_code = "OK")
              => \A o \in DOMAIN orders' \ DOMAIN orders :
                     \A i \in 1..Len(orders'[o].items) :
                         LET line == orders'[o].items[i]
                             product == product_map_get(response'.call.reply.data,
                                                        line.product_id)
                         IN  /\ product # <<>>
                             /\ line.product_id = response'.call.data.items[i].product_id
                             /\ line.product_name = product[1].name
                             /\ line.product_price = product[1].price]_vars
    /\ [][catalog' # catalog => orders' = orders]_vars

\* the Margherita of a stored order still costs 10.00 after the catalog's price
\* has gone up to 12.00 and its name has changed
C19_Witness ==
    \E o \in DOMAIN orders :
        \E i \in 1..Len(orders[o].items) :
            /\ orders[o].items[i].product_id = 42
            /\ orders[o].items[i].product_price = 10000
            /\ orders[o].items[i].product_name = "Margherita"
            /\ 42 \in DOMAIN catalog
            /\ catalog[42].price = 12000
            /\ catalog[42].name = "Margherita DOP"

\* the lifecycle side of an order
Lifecycle(order) == <<order.status, order.delivered_at, order.status_history>>

(***************************************************************************)
(* C20.  Payment status and lifecycle status are independent:              *)
(* update_payment_status on an existing order is never refused, whatever   *)
(* the lifecycle status and the target, and once committed the order has   *)
(* the target payment status; it leaves status, delivered_at and history   *)
(* as they were; on an unknown order id it fails with NotFound and changes *)
(* nothing; update_order_status and cancel_order leave payment_status as   *)
(* it was.                                                                 *)
(***************************************************************************)
C20_PaymentIndependent ==
    /\ []((Answered("update_payment_status") /\ response.call.seen # None)
              => /\ response.result.error_code \in {"OK", "INTERNAL_SERVER_ERROR"}
                 /\ response.result.error_code = "OK"
                        => orders[response.call.order_id].payment_status
                               = response.call.payment_status)
    /\ []((Answered("update_payment_status") /\ response.call.seen = None)
              => response.result.error_code = "NOT_FOUND")
    /\ [][(response' # response /\ response'.call.op = "update_payment_status")
              => /\ DOMAIN orders' = DOMAIN orders
                 /\ \A o \in DOMAIN orders : Lifecycle(orders'[o]) = Lifecycle(orders[o])
                 /\ response'.result.error_code # "OK" => orders' = orders]_vars
    /\ [][\A o \in DOMAIN orders :
              orders'[o].payment_status # orders[o].payment_status
                  => /\ response' # response
                     /\ response'.call.op = "update_payment_status"
                     /\ response'.call.order_id = o]_vars

\* a delivered order has been marked refunded
C20_Witness ==
    /\ Answered("update_payment_status")
    /\ response.result.error_code = "OK"
    /\ response.call.seen = "delivered"
    /\ orders[response.call.order_id].status = "delivered"
    /\ orders[response.call.order_id].payment_status = "refunded"


\* the user with the given id
UserOf(id) == CHOOSE user \in CurrentUser : user.id = id

ReadOps == {"get_order", "get_order_history", "get_order_by_number"}

\* the requests that name an order by its id
ByIdOps ==
    {"get_order", "get_order_history", "update_order", "cancel_order",
     "update_order_status", "update_payment_status"}

\* the user who sent the request c
CallerOf(c) ==
    IF c.op \in ReadOps \cup {"require_roles", "get_all_orders"} THEN c.user
    ELSE IF c.op = "update_order" THEN UserOf(c.user_id)
    ELSE UserOf(c.changed_by)

\* the stored orders the request c names
OrdersNamed(c) ==
    IF c.op = "get_order_by_number" THEN ByOrderNumber(c.order_number)
    ELSE IF c.op = "require_roles" THEN {o \in DOMAIN orders : c.order_id = <<o>>}
    ELSE {o \in DOMAIN orders : c.order_id = o}

\* the request c names an order of somebody else
NamesForeignOrder(c) ==
    \E o \in OrdersNamed(c) : orders[o].user_id # CallerOf(c).id

\* the request c names an order of its sender
NamesOwnOrder(c) ==
    \E o \in OrdersNamed(c) : orders[o].user_id = CallerOf(c).id

\* the response answers a read, an update_order or a cancel_order request
OwnerRouteResponse == response.call.op \in ReadOps \cup {"update_order", "cancel_order"}

\* the response answers a request sent to the admin route update_order_status
StatusRouteResponse ==
    \/ response.call.op = "update_order_status"
    \/ response.call.op = "require_roles" /\ response.call.route = "update_order_status"

\* the response answers a request that names an order
NamesOrderResponse ==
    \/ response.call.op \in ReadOps \cup ByIdOps
    \/ response.call.op = "require_roles" /\ response.call.order_id # <<>>

PrivilegedRoutes ==
    {"update_order_status", "update_payment_status", "get_all_orders", "get_statistics"}

(***************************************************************************)
(* C22.  A customer never causes a status change other than                *)
(* pending -> cancelled on an own order: every step that changes a stored  *)
(* status on a customer's request takes the customer's own order from      *)
(* pending to cancelled; a customer's request to a privileged route        *)
(* (status transition, payment status, list all, statistics) is answered   *)
(* PermissionDenied by the role check and never reaches a session; and a   *)
(* request in flight has is_admin true only for an admin, a manager or a   *)
(* courier (status transition) or an admin or a manager (cancel).          *)
(***************************************************************************)
C22_CustomerOnlyCancels ==
    /\ [][\A o \in DOMAIN orders :
              (/\ orders'[o].status # orders[o].status
               /\ response'.call.op \in StatusOps
               /\ CallerOf(response'.call).role = "customer")
                  => /\ orders[o].status = "pending"
                     /\ orders'[o].status = "cancelled"
                     /\ orders[o].user_id = response'.call.changed_by]_vars
    /\ [](response.call.op \in {"update_order_status", "get_all_orders"}
              => CallerOf(response.call).role # "customer")
    /\ []((response.call.op = "require_roles" /\ response.call.user.role = "customer")
              => /\ response.call.route \in PrivilegedRoutes
                 /\ response.result.error_code = "PERMISSION_DENIED")
    /\ [](\A r \in Sessions :
              (call[r].op \in StatusOps /\ call[r].is_admin)
                  => UserOf(call[r].changed_by).role
                         \in IF call[r].op = "cancel_order"
                             THEN {"admin", "manager"}
                             ELSE {"admin", "manager", "courier"})


\* the fields update_order may write
OrderUpdateFields == {"delivery_address", "contact_name", "contact_phone", "customer_note"}

\* the row with the fields of data written into it
Overwritten(row, data) ==
    [f \in DOMAIN row |-> IF f \in DOMAIN data THEN data[f] ELSE row[f]]

\* an update_order request is answered in this step
UpdateAnswered == response' # response /\ response'.call.op = "update_order"

C24_FieldsWrittenWhilePending ==
    [][\A o \in DOMAIN orders :
           (\/ orders'[o].delivery_address # orders[o].delivery_address
            \/ orders'[o].customer_note # orders[o].customer_note)
               => orders[o].status = "pending"]_vars

(***************************************************************************)
(* C26.  After any sequence of create_order and update_order requests      *)
(* every stored order whose delivery type is delivery has a delivery       *)
(* address that is neither null nor empty.                                 *)
(***************************************************************************)
C26_DeliveryHasAddress ==
    \A o \in DOMAIN orders :
        orders[o].delivery_type = "delivery" => orders[o].delivery_address \notin {None, ""}


\* the create_order request c asks for a delivery and gives no address
LacksAddress(c) ==
    c.op = "create_order" /\ c.data.delivery_type = "delivery"
        /\ c.data.delivery_address \in {None, ""}

(***************************************************************************)
(* C25.  A create_order request for a delivery with a missing or empty     *)
(* delivery address is refused with a validation error before the catalog  *)
(* is called, and nothing is stored; a request for a pickup without an     *)
(* address gets past the address check, and is accepted when its products  *)
(* resolve and its subtotal reaches the minimum.                           *)
(***************************************************************************)
C25_AddressRequired ==
    /\ [](LacksAddress(response.call)
              => /\ response.result
                        = ValidationException(
                              <<"Delivery address is required for delivery orders">>)
                 /\ "reply" \notin DOMAIN response.call
                 /\ DOMAIN orders = {})
    /\ [](\A r \in Sessions : LacksAddress(call[r]) => pc[r] = "received")
    /\ []((/\ response.call.op = "create_order"
           /\ response.call.data.delivery_type = "pickup"
           /\ response.call.data.delivery_address \in {None, ""})
              => /\ "reply" \in DOMAIN response.call
                 /\ (Resolved(response.call)
                         /\ ComputedSubtotal(response.call) >= min_order_amount)
                        => response.result.error_code \in {"OK", "INTERNAL_SERVER_ERROR"})

\* a delivery with the empty string for an address has been refused, and
\* nothing is stored
C25_Witness ==
    /\ LacksAddress(response.call)
    /\ response.call.data.delivery_address = ""
    /\ response.result.error_code = "VALIDATION_ERROR"
    /\ DOMAIN orders = {}


(***************************************************************************)
(* C27.  Every stored order has subtotal, delivery_fee, discount and total *)
(* at or above zero, whatever modifier prices and modifier quantities the  *)
(* request carried, negative ones included, and whatever minimum, fee and  *)
(* threshold, none of them negative, the service was started with.         *)
(***************************************************************************)
C27_AmountsNonNegative ==
    \A o \in DOMAIN orders :
        /\ orders[o].subtotal >= 0
        /\ orders[o].delivery_fee >= 0
        /\ orders[o].discount >= 0
        /\ orders[o].total >= 0

\* with the minimum set to zero, an order whose modifier takes the whole price
\* off its only line is stored with subtotal zero
C27_Witness ==
    /\ settings.min_order_amount = 0
    /\ \E o \in DOMAIN orders :
           /\ orders[o].subtotal = 0
           /\ \E i \in 1..Len(orders[o].items) : orders[o].items[i].modifiers_total < 0


\* the orders the filter of the statistics request c lets through
Matching(c) ==
    {o \in DOMAIN orders :
        /\ c.user_id = <<>> \/ c.user_id = <<orders[o].user_id>>
        /\ c.date_from = <<>> \/ c.date_from[1] <= orders[o].created_at
        /\ c.date_to = <<>> \/ orders[o].created_at <= c.date_to[1]}

\* how many of the orders ids have the status
CountOf(ids, status) == Cardinality({o \in ids : orders[o].status = status})

\* the sum of total over the delivered orders among ids with an id up to k
RECURSIVE DeliveredTotal(_, _)
DeliveredTotal(ids, k) ==
    IF k = 0 THEN 0
    ELSE DeliveredTotal(ids, k - 1)
             + (IF k \in ids /\ orders[k].status = "delivered" THEN orders[k].total ELSE 0)

\* q is the quotient a / n to within half a unit of the last place kept
IsQuotient(q, a, n) ==
    LET error == q * n - a * DecimalScale
    IN  2 * error <= n /\ 2 * (0 - error) <= n

C29_OrderNumbersUnique ==
    \A o, p \in DOMAIN orders : orders[o].order_number = orders[p].order_number => o = p

\* a create_order request generated the number of a stored order and failed
C29_Witness ==
    /\ response.call.op = "create_order"
    /\ "order_number" \in DOMAIN response.call
    /\ response.result.error_code # "OK"
    /\ NumberTaken(response.call.order_number)
    /\ Cardinality(DOMAIN orders) = 1

(***************************************************************************)
(* C30.  A create_order request whose generated order number is that of a  *)
(* stored order is retried with a fresh number, and when it is answered    *)
(* with a failure the failure is DuplicateOrderNumber.                     *)
(***************************************************************************)
C30_DuplicateOrderNumber ==
    (/\ response.call.op = "create_order"
     /\ "order_number" \in DOMAIN response.call
     /\ response.result.error_code # "OK"
     /\ NumberTaken(response.call.order_number))
        => response.result.error_code = "DUPLICATE_ORDER_NUMBER"


(***************************************************************************)
(* C31.  The Catalog Provider is never called again for the same           *)
(* create_order request: the call is issued only by a request that has     *)
(* just passed the address check, a request arrives only in a free         *)
(* session, and a request whose call was answered either goes on to the    *)
(* insert or is answered; a request whose call failed is answered with a   *)
(* failure in the same step.                                               *)
(***************************************************************************)
C31_NoCatalogRetry ==
    [][\A r \in Sessions :
          /\ (pc'[r] = "catalog" /\ pc[r] # "catalog") => pc[r] = "received"
          /\ (pc'[r] = "received" /\ pc[r] # "received") => pc[r] = "idle"
          /\ (pc[r] = "catalog" /\ pc'[r] # "catalog")
                 => /\ pc'[r] \in {"checked", "idle"}
                    /\ pc'[r] = "checked" => ~call'[r].reply.is_none
                    /\ pc'[r] = "idle"
                           => /\ response'.call.op = "create_order"
                              /\ response'.call.user_id = call[r].user_id
                              /\ response'.call.data = call[r].data
                              /\ response'.result.error_code # "OK"]_vars

\* a create_order request whose catalog call failed has been answered with a
\* failure, and no session is calling the catalog
C31_Witness ==
    /\ CreateResponse
    /\ response.call.reply.is_none
    /\ response.result.error_code # "OK"
    /\ \A r \in Sessions : pc[r] # "catalog"


(***************************************************************************)
(* C32.  get_order reads only: the step that answers it changes no order,  *)
(* item or history row, committed or pending, and when it succeeds the     *)
(* aggregate it returns is the stored order with its items and its         *)
(* history, so that repeated calls with no write between them return the   *)
(* same aggregate.                                                         *)
(***************************************************************************)
C32_GetByIdReadOnly ==
    [][(response' # response /\ response'.call.op = "get_order")
          => /\ orders' = orders
             /\ tx' = tx
             /\ next_order_id' = next_order_id
             /\ response'.result.error_code = "OK"
                    => response'.result.data = orders'[response'.call.order_id]]_vars

\* a confirmed order that was paid for since is read with both history
\* entries and the payment
C32_Witness ==
    /\ Answered("get_order")
    /\ response.result.error_code = "OK"
    /\ Len(response.result.data.status_history) = 2
    /\ response.result.data.payment_status = "paid"
    /\ Len(response.result.data.items) >= 1
    /\ response.result.data = orders[response.call.order_id]


(***************************************************************************)
(* C33.  A request on one order never affects another: whenever the        *)
(* stored row of an order (status, fields, items, history) changes in a    *)
(* step, the step is the commit of a request on that very order, and the   *)
(* writes a session holds uncommitted are those of the request it runs.    *)
(***************************************************************************)
C33_OtherOrdersUnchanged ==
    [][\A b \in DOMAIN orders :
          orders'[b] # orders[b]
              => \E r \in Sessions :
                     /\ pc[r] = "flushed" /\ pc'[r] = "idle"
                     /\ call[r].op \in {"update_order", "update_order_status",
                                        "cancel_order", "update_payment_status"}
                     /\ call[r].order_id = b
                     /\ \A a \in DOMAIN orders \ {b} : orders'[a] = orders[a]]_vars

\* the payment of order 2 was committed while a write to order 1 was waiting
\* for its commit, and order 1 is as it was stored
C33_Witness ==
    /\ Answered("update_payment_status")
    /\ response.call.order_id = 2
    /\ response.result.error_code = "OK"
    /\ orders[2].payment_status = "paid"
    /\ \E r \in Sessions :
           pc[r] = "flushed" /\ call[r].order_id = 1 /\ tx[r].status = <<"cancelled">>
    /\ \E s \in {"pending", "confirmed"} : orders[1] = StoredOrder(1, 1, 2, s)


(***************************************************************************)
(* C34.  The privileged roles are the same for every order operation: a    *)
(* caller whose role may apply status transitions to any user's order      *)
(* (admin, manager, courier) is never refused permission when reading a    *)
(* stored order, reading its status history or cancelling it through       *)
(* cancel_order, whoever owns the order.                                   *)
(***************************************************************************)
C34_PrivilegedRolesUniform ==
    (/\ response.call.op \in {"get_order", "get_order_history", "cancel_order"}
     /\ get_courier_user(CallerOf(response.call)).error_code = "OK"
     /\ OrdersNamed(response.call) # {})
        => response.result.error_code # "PERMISSION_DENIED"


(***************************************************************************)
(* C35.  While Redis answers, the gateway passes at most max_requests      *)
(* requests of one client downstream in any window of window_seconds       *)
(* seconds, however the requests overlap and however many of them arrive   *)
(* in the same second.                                                     *)
(***************************************************************************)
C35_RateLimit ==
    \A c \in Clients, t \in 1..MaxTime :
        Cardinality({i \in DOMAIN downstream :
                         /\ downstream[i].client = c
                         /\ downstream[i].at \in t..(t + window_seconds - 1)}) <= max_requests

(***************************************************************************)
(* C36.  dispatch calls call_next at most once for a request: once for a   *)
(* request it admits, also when a call to Redis raises or the downstream   *)
(* handler raises, and not at all for a request it answers with 429.       *)
(***************************************************************************)
C36_ForwardedOnce ==
    Answered("dispatch")
        => response.call.forwards = IF response.result.status_code = 429 THEN 0 ELSE 1


(***************************************************************************)
(* C37.  A refresh token is used once: a token pair is issued at most once *)
(* for a refresh token, however the refresh_tokens calls overlap; a call   *)
(* that starts after a pair was issued for its token fails with            *)
(* TokenBlacklisted; and a call that fails leaves the blacklist as it was. *)
(***************************************************************************)
C37_RefreshTokenSingleUse ==
    /\ [](\A token \in RefreshTokens : TimesIssued(token) <= 1)
    /\ []((Answered("refresh_tokens") /\ response.call.issued_before > 0)
              => response.result.error_code = "TOKEN_REVOKED")
    /\ [][(/\ response' # response
           /\ response'.call.op = "refresh_tokens"
           /\ response'.result.error_code # "OK")
              => redis'.blacklist = redis.blacklist]_vars


(***************************************************************************)
(* C38.  The cached menu is never older than a completed mutation: a       *)
(* get_menu call during which the products did not change (every mutation  *)
(* the database shows had completed when the call started) returns the     *)
(* menu of the database as it is, not one built before a mutation.         *)
(***************************************************************************)
C38_MenuCacheFresh ==
    (Answered("get_menu") /\ response.call.base = MenuOf(catalog))
        => response.result.data = MenuOf(catalog)

====
